---- MODULE Spec2Model ----
(***************************************************************************)
(* A model of igent's agent orchestrator (internal/agent/agent.go,         *)
(* Agent.ChatStream), the context/memory manager it uses                   *)
(* (memory.Manager: BuildContext, getRecentMessages, getRelevantMemories,  *)
(* summarizeConversation, extractMemories), the tool registry boundary     *)
(* (tools.Registry.Execute, tools.ParseToolCall) and the JSON store        *)
(* (storage.JSONStore).                                                    *)
(*                                                                         *)
(* Text is modelled as a sequence of words (strings); "" is <<>>.          *)
(* A foreground turn is one call of ChatStream; the goroutine started by   *)
(* BuildContext ("go m.summarizeConversation(conv)") is a second process   *)
(* that shares the *Conversation object of the turn that started it.       *)
(***************************************************************************)
EXTENDS Integers, Sequences, FiniteSets, TLC

----------------------------------------------------------------------------
(* Program constants *)

\* maxIterations := 10 in ChatStream
maxIterations == 10

\* keepCount := 10 in summarizeConversation
keepCount == 10

\* the top-5 cap of getRelevantMemories
memoryCap == 5

\* "budget := m.maxTokens - newMsgTokens - 500"
responseReserve == 500

(* Bounds of the model *)

\* the largest number of tool calls in one provider response
MaxCalls == 2

\* the largest number of messages of a conversation found on disk
MaxStored == 12

\* the largest number of AddMemory calls the caller makes
MaxAdds == 2

----------------------------------------------------------------------------
(* Text *)

\* len(word) for the words the model uses; every other word counts 6 bytes.
\* "the_acute" stands for the French word for tea, t-h-e with an acute accent:
\* three letters, four bytes in UTF-8
WordLen(w) ==
    CASE w = "hello" -> 5
      [] w = "tell" -> 4
      [] w = "about" -> 5
      [] w = "golang" -> 6
      [] w = "Golang" -> 6
      [] w = "likes" -> 5
      [] w = "user" -> 4
      [] w = "the" -> 3
      [] w = "test" -> 4
      [] w = "the_acute" -> 4
      [] OTHER -> 6

RECURSIVE TextLen(_)
\* len(content): the bytes of the words and of the single spaces between them
TextLen(text) ==
    IF text = <<>> THEN 0
    ELSE WordLen(Head(text)) + (IF Len(text) > 1 THEN 1 ELSE 0) + TextLen(Tail(text))

\* strings.ToLower on one word
ToLower(w) == IF w = "Golang" THEN "golang" ELSE w

\* strings.Contains(content, word) for a word without blanks: the word is a
\* substring of one of the words of the content
IsSubstring(w, v) == w = v \/ (w = "lang" /\ v = "golang")

Contains(text, w) == \E i \in 1..Len(text) : IsSubstring(w, ToLower(text[i]))

----------------------------------------------------------------------------
(* llm.Message, llm.ToolCall *)

Message(role, content) ==
    [Role |-> role, Content |-> content, ToolCalls |-> <<>>, ToolCallID |-> 0, Name |-> ""]

AssistantToolCalls(content, calls) ==
    [Role |-> "assistant", Content |-> content, ToolCalls |-> calls, ToolCallID |-> 0, Name |-> ""]

ToolMessage(id, name, content) ==
    [Role |-> "tool", Content |-> content, ToolCalls |-> <<>>, ToolCallID |-> id, Name |-> name]

\* OpenAIProvider.CountTokens: len(content)/4 + 4 per message
RECURSIVE CountTokens(_)
CountTokens(messages) ==
    IF messages = <<>> THEN 0
    ELSE (TextLen(Head(messages).Content) \div 4) + 4 + CountTokens(Tail(messages))

----------------------------------------------------------------------------
(* tools: ParseToolCall and Registry.Execute *)

\* the raw argument strings the provider stub sends
ArgStrings == {"{\"text\": \"test\"}", "{}", "{bad"}

\* json.Unmarshal([]byte(argsJSON), &call.Args) succeeds: the string is a JSON object
JSONUnmarshalOK(argsJSON) == argsJSON \in {"{\"text\": \"test\"}", "{}"}

\* mutant: the parse error is dropped
ParseToolCallLenient(argsJSON) == TRUE

\* tools.ParseToolCall: err == nil
ParseToolCallOK(argsJSON) == argsJSON = "" \/ JSONUnmarshalOK(argsJSON)

\* the text of the error ParseToolCall returns
ParseToolCallError == <<"parsing", "tool", "arguments:", "invalid", "character">>

\* the names in Registry.tools after registerDefaults (the ones the stub uses)
RegisteredTools == {"echo"}

\* args["text"].(string) of the echo tool's Executor
HasText(argsJSON) == argsJSON = "{\"text\": \"test\"}"

\* mutant: a call of an unregistered tool gets an empty result
ExecuteUnknownSilent(call) ==
    IF call.Name \notin RegisteredTools
    THEN [ToolCallID |-> call.ID, Name |-> call.Name, Output |-> <<>>, Error |-> <<>>]
    ELSE IF ~HasText(call.RawArgs)
    THEN [ToolCallID |-> call.ID, Name |-> call.Name, Output |-> <<>>,
          Error |-> <<"text", "is", "required">>]
    ELSE [ToolCallID |-> call.ID, Name |-> call.Name, Output |-> <<"test">>,
          Error |-> <<>>]

\* tools.Registry.Execute: the ToolResult of a parsed call
Execute(call) ==
    IF call.Name \notin RegisteredTools
    THEN [ToolCallID |-> call.ID, Name |-> call.Name, Output |-> <<>>,
          Error |-> <<"unknown", "tool:", call.Name>>]
    ELSE IF ~HasText(call.RawArgs)
    THEN [ToolCallID |-> call.ID, Name |-> call.Name, Output |-> <<>>,
          Error |-> <<"text", "is", "required">>]
    ELSE [ToolCallID |-> call.ID, Name |-> call.Name, Output |-> <<"test">>,
          Error |-> <<>>]

\* "Format result for LLM" in ChatStream
ResultContent(result) ==
    IF result.Error # <<>> THEN <<"Error:">> \o result.Error ELSE result.Output

\* the content of the tool message ChatStream appends when ParseToolCall fails
ParseErrorContent == <<"Error", "parsing", "tool", "arguments:">> \o ParseToolCallError

----------------------------------------------------------------------------
(* The provider: a stub, as the mocks of the agent's tests *)

\* one requested call without its id: Function == nil, or a name and raw arguments
CallShapes ==
    {[Function |-> FALSE, Name |-> "", Arguments |-> ""]}
    \cup {[Function |-> TRUE, Name |-> "echo", Arguments |-> a] : a \in ArgStrings}
    \cup {[Function |-> TRUE, Name |-> "nosuch", Arguments |-> "{\"text\": \"test\"}"]}

\* the non-empty lists of calls a response may carry
CallLists == UNION {[1..n -> CallShapes] : n \in 1..MaxCalls}

\* the calls of the response to the k-th CompleteWithOptions call of a turn:
\* the stub's list, each call with an id of its own
ResponseToolCalls(shapes, k) ==
    [j \in 1..Len(shapes) |->
        [ID |-> (k - 1) * MaxCalls + j, Function |-> shapes[j].Function,
         Name |-> shapes[j].Name, Arguments |-> shapes[j].Arguments]]

\* the content of the k-th response when it carries no tool call: the stub's
\* text, which may be the empty string
FinalContents(k, empty) == IF empty THEN {<<>>} ELSE {<<"response", ToString(k)>>}

\* Response.HasToolCalls
HasToolCalls(resp) == Len(resp.ToolCalls) > 0

----------------------------------------------------------------------------
(* memory.Manager: recall *)

MemoryTypes == {"fact", "preference", "context"}

\* "- [%s] %s" of formatMemories: the bracketed type
TypeTag(t) ==
    CASE t = "fact" -> "[fact]"
      [] t = "preference" -> "[preference]"
      [] t = "context" -> "[context]"
      [] OTHER -> "[other]"

\* the number of query words longer than 3 bytes that the content contains
MatchCount(query, content) ==
    Cardinality({i \in 1..Len(query) :
        WordLen(ToLower(query[i])) > 3 /\ Contains(content, ToLower(query[i]))})

\* mutant: a score of exactly 0.1 passes
ScoreAtLeastThreshold(query, mem) == 2 * MatchCount(query, mem.Content) * mem.Relevance >= 10

\* score > 0.1 with score = 0.2 * matchCount * Relevance; Relevance is in tenths
ScoreAboveThreshold(query, mem) == 2 * MatchCount(query, mem.Content) * mem.Relevance > 10

\* mutant: the check of the stored relevance is missing
CandidatesNoFloor(memories, query) == {mem \in memories : ScoreAboveThreshold(query, mem)}

\* the items getRelevantMemories appends to "relevant"
Candidates(memories, query) ==
    {mem \in memories : mem.Relevance >= 3 /\ ScoreAboveThreshold(query, mem)}

\* sort.Slice by Relevance, descending: any order of the items that is
\* non-increasing in Relevance (sort.Slice is not stable), built from its first
\* item, one of those of the highest Relevance
RECURSIVE SortedByRelevance(_)
SortedByRelevance(items) ==
    IF items = {} THEN {<<>>}
    ELSE UNION {{<<m>> \o s : s \in SortedByRelevance(items \ {m})} :
                    m \in {x \in items : \A y \in items : x.Relevance >= y.Relevance}}

\* getRelevantMemories: the lists it may return
getRelevantMemories(memories, query) ==
    {IF Len(s) > memoryCap THEN SubSeq(s, 1, memoryCap) ELSE s :
        s \in SortedByRelevance(Candidates(memories, query))}

RECURSIVE formatMemories(_)
formatMemories(mems) ==
    IF mems = <<>> THEN <<>>
    ELSE <<"-", TypeTag(Head(mems).Type)>> \o Head(mems).Content \o formatMemories(Tail(mems))

----------------------------------------------------------------------------
(* memory.Manager: the sliding window and BuildContext *)

RECURSIVE WalkSkipping(_, _, _, _, _, _)
\* mutant: a message that breaks the budget is passed over and the walk goes on
WalkSkipping(messages, i, recent, tokenCount, budget, maxMessages) ==
    IF i < 1 THEN recent
    ELSE LET msgTokens == CountTokens(<<messages[i]>>) IN
         IF tokenCount + msgTokens > budget
         THEN WalkSkipping(messages, i - 1, recent, tokenCount, budget, maxMessages)
         ELSE IF Len(recent) + 1 >= maxMessages THEN <<messages[i]>> \o recent
         ELSE WalkSkipping(messages, i - 1, <<messages[i]>> \o recent,
                           tokenCount + msgTokens, budget, maxMessages)

RECURSIVE Walk(_, _, _, _, _, _)
\* the loop of getRecentMessages from index i down to 1
Walk(messages, i, recent, tokenCount, budget, maxMessages) ==
    IF i < 1 THEN recent
    ELSE LET msgTokens == CountTokens(<<messages[i]>>) IN
         IF tokenCount + msgTokens > budget THEN recent
         ELSE IF Len(recent) + 1 >= maxMessages THEN <<messages[i]>> \o recent
         ELSE Walk(messages, i - 1, <<messages[i]>> \o recent, tokenCount + msgTokens,
                   budget, maxMessages)

\* mutant: the new user message has to fit the budget like the others
getRecentMessagesAllBudgeted(cfg, messages, newUserMessage) ==
    LET result == <<Message("user", newUserMessage)>>
        budget == cfg.maxTokens - CountTokens(result) - responseReserve
    IN Walk(messages, Len(messages), <<>>, 0, budget, cfg.maxMessages)
       \o (IF budget > 0 THEN result ELSE <<>>)

getRecentMessages(cfg, messages, newUserMessage) ==
    LET result == <<Message("user", newUserMessage)>>
        budget == cfg.maxTokens - CountTokens(result) - responseReserve
    IN Walk(messages, Len(messages), <<>>, 0, budget, cfg.maxMessages) \o result

\* mutant: the summary message is emitted before the memory message
BuildContextSummaryFirst(cfg, conv, userMessage, memories) ==
    (IF conv.Summary # <<>>
     THEN <<Message("system", <<"Previous", "conversation", "summary:">> \o conv.Summary)>>
     ELSE <<>>)
    \o (IF memories # <<>>
        THEN <<Message("system", <<"Relevant", "context", "from", "memory:">>
                                   \o formatMemories(memories))>>
        ELSE <<>>)
    \o getRecentMessages(cfg, conv.Messages, userMessage)

\* BuildContext's return value, given the list getRelevantMemories returned
BuildContext(cfg, conv, userMessage, memories) ==
    (IF memories # <<>>
     THEN <<Message("system", <<"Relevant", "context", "from", "memory:">>
                                \o formatMemories(memories))>>
     ELSE <<>>)
    \o (IF conv.Summary # <<>>
        THEN <<Message("system", <<"Previous", "conversation", "summary:">> \o conv.Summary)>>
        ELSE <<>>)
    \o getRecentMessages(cfg, conv.Messages, userMessage)

\* the condition under which BuildContext starts the goroutine
SummarizationTriggered(cfg, conv) == Len(conv.Messages) >= cfg.summarizeWhen

\* buildSystemPrompt and skills.EnhancePrompt: the text of the system message
buildSystemPrompt == <<"system", "prompt", "and", "date">>

----------------------------------------------------------------------------
(* State *)

VARIABLES
    conversationID, \* Agent.conversationID
    store,          \* JSONStore: messages/<id>.json, by conversation id
    memStore,       \* JSONStore: the memory/<id>.json files, a set of MemoryItem
    clock,          \* time.Now().UnixNano(), as far as generateID has seen it
    cfg,            \* config.Context: maxMessages, maxTokens, summarizeWhen
    onToolConfirm,  \* Agent.onToolConfirm: "nil" or "set"
    stub,           \* the provider stub: the calls of its tool-call responses
    emptyFinal,     \* the provider stub: its responses without tool calls have content ""
    turnLimit,      \* the number of ChatStream calls the caller makes
    caller,         \* what else the caller does: its ChatStream arguments, its AddMemory calls
    turn,           \* the number of ChatStream calls started
    pc,             \* the position of the current ChatStream call
    userInput,      \* ChatStream's userInput
    onChunk,        \* ChatStream's onChunk: "nil" or "set"
    conv,           \* the *Conversation loaded by each turn (shared with its goroutine)
    fullMessages,   \* ChatStream's working list
    iteration,      \* ChatStream's loop counter
    toolCalls,      \* resp.ToolCalls of the response being handled
    tc,             \* the index of the next call of toolCalls to handle
    response,       \* ChatStream's response
    appended,       \* the value of append(conv.Messages, ...) before it is stored
    result,         \* what ChatStream returned: text and error
    bg,             \* the summarizeConversation goroutine of each turn
    \* history variables, reset when a turn starts
    completeCount,  \* the number of CompleteWithOptions calls of the turn
    handled,        \* per call handled in the turn: id, what happened to it
    sink,           \* the chunks passed to onChunk
    saves,          \* per turn, the SaveConversation calls made by it or its goroutine
    preTurn,        \* the stored conversation record when the turn started
    built,          \* BuildContext of the turn: the memories loaded, those recalled, its output
    added,          \* the AddMemory calls made so far: content, type and generated id
    \* the JSONStore seen from its callers
    mu,             \* JSONStore.mu: the goroutine holding the write lock, those holding the read lock
    inStore,        \* per goroutine, the JSONStore method it is in: arguments and position
    nCalls,         \* the number of JSONStore method calls started by these goroutines
    ret,            \* what the last JSONStore method to return has returned
    saved,          \* per conversation id, the conversation last saved and not deleted since
    \* the scope of a turn and the shell tool running in it
    elapsed,        \* the time since the turn began, in seconds
    ctx,            \* ChatStream's ctx: its deadline, whether and when it was cancelled
    shell           \* the shell tool's Executor: position, timeout, the command's run time

turnVars == <<pc, userInput, onChunk, fullMessages, iteration, toolCalls, tc, response, appended,
              result>>
histVars == <<completeCount, handled, sink, saves, preTurn, built, added>>
envVars == <<cfg, onToolConfirm, stub, emptyFinal, turnLimit, caller>>
lockVars == <<mu, inStore, nCalls, ret>>
scopeVars == <<elapsed, ctx, shell>>
vars == <<conversationID, store, memStore, clock, cfg, onToolConfirm, stub, emptyFinal, turnLimit,
          caller,
          turn, pc, userInput, onChunk, conv, fullMessages, iteration, toolCalls, tc, response,
          appended, result, bg, completeCount, handled, sink, saves, preTurn, built, added,
          mu, inStore, nCalls, ret, saved, elapsed, ctx, shell>>

\* the turns a behaviour may have: the indices of conv and bg
Turns == {1, 2}

\* the conversation ids the callers use: "/new", "/switch" and "/delete" pass the
\* word typed by the user
ConvIDs == {"default", "other", "./other"}

\* the files of the messages directory, named without ".json"
Files == {"default", "other"}

\* filepath.Join(s.baseDir, "messages", id+".json"): Join cleans the path, which
\* drops a leading "./"
PathOf(id) == IF id = "./other" THEN "other" ELSE id

\* storage.ErrNotFound: no file for the id
NotFound == [Exists |-> FALSE, ID |-> "", Messages |-> <<>>, Summary |-> <<>>]

Conversation(id, messages, summary) ==
    [Exists |-> TRUE, ID |-> id, Messages |-> messages, Summary |-> summary]

\* a conversation file found on disk: n messages, user and assistant in turn
StoredMessages(n) ==
    [i \in 1..n |-> Message(IF i % 2 = 1 THEN "user" ELSE "assistant", <<"msg", ToString(i)>>)]

\* the conversation files the model starts from
StoredConversations ==
    {Conversation("default", StoredMessages(n), <<>>) :
        n \in {0, 5, keepCount + 1, MaxStored}}
    \cup {Conversation("default", StoredMessages(n), <<"old", "summary">>) :
        n \in {keepCount, MaxStored}}

\* config.Context of the agent's tests
TestConfig == [maxMessages |-> 10, maxTokens |-> 1000, summarizeWhen |-> 5]

\* config.Context: DefaultConfig, the tests' config, and one with a tight token budget
Configs ==
    {[maxMessages |-> 50, maxTokens |-> 4000, summarizeWhen |-> 30],
     TestConfig,
     [maxMessages |-> 50, maxTokens |-> 520, summarizeWhen |-> 11]}

\* the ChatStream calls the model makes: the input, and whether onChunk is given
ChatStreamCalls ==
    {[input |-> <<"hello">>, onChunk |-> "nil"],
     [input |-> <<"tell", "about", "Golang">>, onChunk |-> "set"]}

\* one more call, with a query word of three letters and four bytes
RecallCalls == ChatStreamCalls \cup {[input |-> <<"the_acute">>, onChunk |-> "nil"]}

\* storage.MemoryItem; Relevance is in tenths
MemoryItem(id, content, type, relevance) ==
    [ID |-> id, Content |-> content, Type |-> type, Relevance |-> relevance]

\* the memory files the model starts from
StoredMemories == {MemoryItem(0, <<"user", "likes", "golang">>, "fact", 10)}

\* more memory files, with ids below the clock's first value
MoreMemories ==
    {MemoryItem(-1, <<"tell", "golang">>, "preference", 3),
     MemoryItem(-2, <<"tell", "about", "golang">>, "context", 2),
     MemoryItem(-3, <<"golang">>, "fact", 5),
     MemoryItem(-4, <<"golang">>, "fact", 6)}

ManyMemories ==
    {MemoryItem(-5, <<"about", "golang">>, "fact", 7),
     MemoryItem(-6, <<"tell">>, "context", 10),
     MemoryItem(-7, <<"about">>, "fact", 10),
     MemoryItem(-8, <<"the_acute">>, "preference", 10)}

\* the memory directories the recall is tried on
MemorySets ==
    {{}, StoredMemories, StoredMemories \cup MoreMemories,
     StoredMemories \cup MoreMemories \cup ManyMemories}

\* short conversation files, for the sliding window
ShortConversations ==
    {Conversation("default", StoredMessages(n), <<>>) : n \in 1..3}

\* a conversation file whose messages differ in length: a long answer between
\* two short user messages
UnevenConversation ==
    Conversation("default",
                 <<Message("user", <<"hello">>),
                   Message("assistant", <<"a", "long", "answer", "of", "eight", "words",
                                          "in", "all">>),
                   Message("user", <<"hello">>)>>,
                 <<>>)

\* config.Context with small windows and budgets: maxMessages from 0, and
\* maxTokens around the 500 tokens reserved for the response
WindowConfigs ==
    {[maxMessages |-> mm, maxTokens |-> mt, summarizeWhen |-> 30] :
        mm \in {0, 1, 2, 10}, mt \in {responseReserve, 505, 512, 520}}

\* what the caller does besides its turns
Caller(calls, adds) == [calls |-> calls, adds |-> adds]

\* the arguments of the caller's AddMemory calls
AddMemoryCalls ==
    {[content |-> <<"X">>, type |-> "fact"], [content |-> <<"likes", "golang">>, type |-> "note"]}

NoBuilt == [loaded |-> {}, memories |-> <<>>, context |-> <<>>]

\* a goroutine's position and its locals: toSummarize, resp.Content of the summary
\* call, the sliced list, and the lines of the extraction response
NoGoroutine ==
    [pc |-> "none", toSummarize |-> <<>>, summary |-> <<>>, kept |-> <<>>, lines |-> <<>>]

NoResult == [text |-> <<>>, err |-> ""]

\* the goroutines that call the JSONStore: two foreground callers and the
\* summarizeConversation goroutine of a turn
Goroutines == {"turn1", "turn2", "summarizer"}

\* JSONStore.mu, unlocked
Unlocked == [writer |-> "none", readers |-> {}]

\* a goroutine outside the JSONStore
NoCall == [op |-> "none", pc |-> "none", id |-> "", conv |-> NotFound,
           item |-> MemoryItem(0, <<>>, "", 0)]

\* context.Background(): no deadline, never cancelled
Background_ctx == [deadline |-> -1, cancelled |-> FALSE, cancelledAt |-> -1]

\* the shell tool's Executor is not running
NoShell == [pc |-> "idle", timeout |-> 0, duration |-> 0, started |-> 0, err |-> ""]

\* no JSONStore method has returned yet
NoReturn == [op |-> "none", id |-> "", conv |-> NotFound, ids |-> {}, err |-> ""]

Init ==
    /\ conversationID = ""
    /\ store \in {[f \in Files |-> IF f = "default" THEN c ELSE NotFound] :
                    c \in {NotFound, UnevenConversation} \cup StoredConversations
                         \cup ShortConversations}
    \* the stubs with several calls per response meet the tests' config and a
    \* conversation without messages, as in the tests; every conversation and
    \* every config meet the stubs with one call per response
    /\ \/ /\ stub \in CallLists
          /\ cfg = TestConfig
          /\ Len(store["default"].Messages) = 0
          /\ memStore = StoredMemories
          /\ onToolConfirm \in {"nil", "set"}
          /\ turnLimit = 1
          /\ caller = Caller(ChatStreamCalls, 0)
       \/ /\ stub \in [1..1 -> CallShapes]
          /\ cfg \in Configs
          /\ store["default"] # UnevenConversation
          /\ memStore = StoredMemories
          /\ onToolConfirm \in {"nil", "set"}
          /\ turnLimit = 1
          /\ caller = Caller(ChatStreamCalls, 0)
       \* two turns in a row on a conversation long enough to be summarized, with a
       \* provider that asks for no tool
       \/ /\ stub = <<>>
          /\ cfg = TestConfig
          /\ Len(store["default"].Messages) > keepCount
          /\ memStore = StoredMemories
          /\ onToolConfirm = "nil"
          /\ turnLimit = 2
          /\ caller = Caller({[input |-> <<"hello">>, onChunk |-> "nil"]}, 0)
       \* small windows and budgets, also on the conversation with uneven messages
       \/ /\ stub = <<>>
          /\ cfg \in WindowConfigs
          /\ memStore = StoredMemories
          /\ onToolConfirm = "nil"
          /\ turnLimit = 1
          /\ caller = Caller(ChatStreamCalls, 0)
       \* memory directories of several sizes; AddMemory calls on the empty
       \* directory and on the tests' directory
       \/ /\ stub = <<>>
          /\ cfg = TestConfig
          /\ Len(store["default"].Messages) \in {0, keepCount}
          /\ memStore \in MemorySets
          /\ onToolConfirm = "nil"
          /\ turnLimit = 1
          /\ caller \in {Caller(RecallCalls, n) : n \in 0..MaxAdds}
          /\ caller.adds > 0 => memStore \in {{}, StoredMemories}
    \* a stub whose text is empty meets the tests' config, a conversation without
    \* messages and at most one echo call per response
    /\ emptyFinal \in BOOLEAN
    /\ emptyFinal =>
          /\ stub \in {<<>>, <<[Function |-> TRUE, Name |-> "echo", Arguments |-> "{\"text\": \"test\"}"]>>}
          /\ cfg = TestConfig
          /\ Len(store["default"].Messages) = 0
          /\ onToolConfirm = "nil"
          /\ caller = Caller(ChatStreamCalls, 0)
    /\ clock = 1
    /\ turn = 0
    /\ pc = "idle"
    /\ userInput = <<>>
    /\ onChunk = "nil"
    /\ conv = [t \in Turns |-> NotFound]
    /\ fullMessages = <<>>
    /\ iteration = 0
    /\ toolCalls = <<>>
    /\ tc = 0
    /\ response = <<>>
    /\ appended = <<>>
    /\ result = NoResult
    /\ bg = [t \in Turns |-> NoGoroutine]
    /\ completeCount = 0
    /\ handled = <<>>
    /\ sink = <<>>
    /\ saves = [t \in Turns |-> 0]
    /\ preTurn = NotFound
    /\ built = NoBuilt
    /\ added = <<>>
    /\ mu = Unlocked
    /\ inStore = [g \in Goroutines |-> NoCall]
    /\ nCalls = 0
    /\ ret = NoReturn
    /\ saved = [id \in ConvIDs |-> IF id \in Files THEN store[id] ELSE NotFound]
    /\ elapsed = 0
    /\ ctx = Background_ctx
    /\ shell = NoShell

----------------------------------------------------------------------------
(* JSONStore memory files, Agent.AddMemory *)

\* JSONStore.LoadMemories: the items of the .json files of the memory directory
LoadMemories(memories) == memories

\* JSONStore.SaveMemory: the file memory/<ID>.json is written
SaveMemory(memories, item) == {m \in memories : m.ID # item.ID} \cup {item}

\* mutant: the item gets the relevance of an extracted item
NewMemoryAsExtracted(id, content, type) == MemoryItem(id, content, type, 7)

\* the MemoryItem Manager.AddMemory builds: relevance 1.0
NewMemory(id, content, type) == MemoryItem(id, content, type, 10)

\* Agent.AddMemory, Manager.AddMemory: generateID reads the clock, which may not
\* have moved since the last id was generated
AddMemory(content, type) ==
    /\ pc \in {"idle", "done"}
    /\ Len(added) < caller.adds
    /\ \E tick \in {0, 1} :
          /\ clock' = clock + tick
          /\ memStore' = SaveMemory(memStore, NewMemory(clock', content, type))
          /\ added' = Append(added, [content |-> content, type |-> type, id |-> clock'])
    /\ UNCHANGED <<conversationID, store, saved, envVars, lockVars, scopeVars, turn, turnVars, conv, bg, completeCount,
                   handled, sink, saves, preTurn, built>>

----------------------------------------------------------------------------
(* Agent.SetConversation *)

\* json.MarshalIndent on an llm.ToolCall: the fields of the JSON object; the
\* function is left out when the pointer is nil (omitempty)
MarshalToolCall(call) ==
    [f \in {"id"} \cup (IF call.Function THEN {"function"} ELSE {}) |->
        IF f = "id" THEN <<call.ID>> ELSE <<call.Name, call.Arguments>>]

\* json.Unmarshal into an llm.ToolCall: a missing field keeps its zero value
UnmarshalToolCall(d) ==
    [ID |-> d["id"][1],
     Function |-> "function" \in DOMAIN d,
     Name |-> IF "function" \in DOMAIN d THEN d["function"][1] ELSE "",
     Arguments |-> IF "function" \in DOMAIN d THEN d["function"][2] ELSE ""]

\* json.MarshalIndent on an llm.Message: tool_calls, tool_call_id and name are
\* left out when empty (omitempty)
MarshalMessage(m) ==
    [f \in {"role", "content"}
           \cup (IF m.ToolCalls # <<>> THEN {"tool_calls"} ELSE {})
           \cup (IF m.ToolCallID # 0 THEN {"tool_call_id"} ELSE {})
           \cup (IF m.Name # "" THEN {"name"} ELSE {}) |->
        CASE f = "role" -> <<m.Role>>
          [] f = "content" -> m.Content
          [] f = "tool_calls" -> [i \in 1..Len(m.ToolCalls) |-> MarshalToolCall(m.ToolCalls[i])]
          [] f = "tool_call_id" -> <<m.ToolCallID>>
          [] OTHER -> <<m.Name>>]

\* json.Unmarshal into an llm.Message
UnmarshalMessage(d) ==
    [Role |-> d["role"][1],
     Content |-> d["content"],
     ToolCalls |-> IF "tool_calls" \in DOMAIN d
                   THEN [i \in 1..Len(d["tool_calls"]) |-> UnmarshalToolCall(d["tool_calls"][i])]
                   ELSE <<>>,
     ToolCallID |-> IF "tool_call_id" \in DOMAIN d THEN d["tool_call_id"][1] ELSE 0,
     Name |-> IF "name" \in DOMAIN d THEN d["name"][1] ELSE ""]

\* json.MarshalIndent(conv, "", "  "): the summary is left out when empty
MarshalConversation(c) ==
    [f \in {"id", "messages"} \cup (IF c.Summary # <<>> THEN {"summary"} ELSE {}) |->
        CASE f = "id" -> <<c.ID>>
          [] f = "messages" -> [i \in 1..Len(c.Messages) |-> MarshalMessage(c.Messages[i])]
          [] OTHER -> c.Summary]

\* json.Unmarshal(data, &conv)
UnmarshalConversation(d) ==
    [Exists |-> TRUE,
     ID |-> d["id"][1],
     Messages |-> [i \in 1..Len(d["messages"]) |-> UnmarshalMessage(d["messages"][i])],
     Summary |-> IF "summary" \in DOMAIN d THEN d["summary"] ELSE <<>>]

\* JSONStore.LoadConversation: the file at the id's path, or ErrNotFound
LoadConversation(id) == IF PathOf(id) \in Files THEN store[PathOf(id)] ELSE NotFound

\* JSONStore.SaveConversation: the file at the path of conv.ID is replaced by the
\* JSON document of conv; the store holds what json.Unmarshal reads from it
SaveConversation(c) ==
    [store EXCEPT ![PathOf(c.ID)] = UnmarshalConversation(MarshalConversation(c))]

\* the record of that call: the conversation last saved under the id
Saved(c) == [saved EXCEPT ![c.ID] = c]

SetConversation(id) ==
    LET cid == IF id = "" THEN "default" ELSE id IN
    /\ pc \in {"idle", "done"}
    /\ conversationID' = cid
    /\ store' = IF LoadConversation(cid) = NotFound
                THEN SaveConversation(Conversation(cid, <<>>, <<>>))
                ELSE store
    /\ saved' = IF LoadConversation(cid) = NotFound
                THEN Saved(Conversation(cid, <<>>, <<>>))
                ELSE saved
    /\ UNCHANGED <<memStore, clock, envVars, lockVars, scopeVars, turn, turnVars, conv, bg, histVars>>

----------------------------------------------------------------------------
(* Agent.ChatStream *)

\* the seeding without the append of line 247: the context already ends with
\* the new user message
SeedMessagesOnce(context, input) == <<Message("system", buildSystemPrompt)>> \o context

\* the working list ChatStream seeds: the system message, BuildContext's list,
\* the user message
SeedMessages(context, input) ==
    <<Message("system", buildSystemPrompt)>> \o context \o <<Message("user", input)>>

\* from the call to the first loop test: LoadConversation, BuildContext (which may
\* start the goroutine), the seeding of fullMessages
ChatStreamBegin(input, chunk) ==
    LET loaded == LoadConversation(conversationID) IN
    /\ pc \in {"idle", "done"}
    /\ turn < turnLimit
    /\ turn' = turn + 1
    /\ userInput' = input
    /\ onChunk' = chunk
    /\ iteration' = 0
    /\ toolCalls' = <<>>
    /\ tc' = 0
    /\ response' = <<>>
    /\ appended' = <<>>
    /\ completeCount' = 0
    /\ handled' = <<>>
    /\ sink' = <<>>
    /\ preTurn' = loaded
    /\ IF loaded = NotFound
       THEN /\ pc' = "done"
            /\ result' = [text |-> <<>>, err |-> "loading conversation"]
            /\ fullMessages' = <<>>
            /\ built' = NoBuilt
            /\ UNCHANGED <<conv, bg>>
       ELSE /\ \E memories \in getRelevantMemories(LoadMemories(memStore), input) :
                  /\ built' = [loaded |-> LoadMemories(memStore), memories |-> memories,
                               context |-> BuildContext(cfg, loaded, input, memories)]
                  /\ fullMessages' = SeedMessages(built'.context, input)
            /\ conv' = [conv EXCEPT ![turn'] = loaded]
            /\ bg' = [bg EXCEPT ![turn'] =
                        IF SummarizationTriggered(cfg, loaded)
                        THEN [NoGoroutine EXCEPT !.pc = "start"]
                        ELSE NoGoroutine]
            /\ pc' = "loop"
            /\ result' = NoResult
    /\ UNCHANGED <<conversationID, store, saved, memStore, clock, envVars, lockVars, scopeVars, saves, added>>

\* mutant: the loop test lets an eleventh iteration in
LoopEnteredOffByOne == pc = "loop" /\ iteration <= maxIterations

\* "for iteration < maxIterations": the loop body is entered
LoopEntered == pc = "loop" /\ iteration < maxIterations

\* CompleteWithOptions returns an error
CompleteError ==
    /\ LoopEntered
    /\ iteration' = iteration + 1
    /\ completeCount' = completeCount + 1
    /\ result' = [text |-> <<>>, err |-> "LLM completion"]
    /\ pc' = "done"
    /\ UNCHANGED <<conversationID, store, saved, memStore, clock, envVars, lockVars, scopeVars, turn, userInput, onChunk,
                   conv, fullMessages, toolCalls, tc, response, appended, bg, handled, sink,
                   saves, preTurn, built, added>>

\* the response has no tool calls: "response = resp.Content; break"
CompleteFinal ==
    /\ LoopEntered
    /\ iteration' = iteration + 1
    /\ completeCount' = completeCount + 1
    /\ \E content \in FinalContents(iteration + 1, emptyFinal) : response' = content
    /\ pc' = "after"
    /\ UNCHANGED <<conversationID, store, saved, memStore, clock, envVars, lockVars, scopeVars, turn, userInput, onChunk,
                   conv, fullMessages, toolCalls, tc, appended, result, bg, handled, sink,
                   saves, preTurn, built, added>>

\* mutant: the assistant message of a response with tool calls is not appended
CompleteToolCallsUnrecorded ==
    /\ LoopEntered
    /\ stub # <<>>
    /\ iteration' = iteration + 1
    /\ completeCount' = completeCount + 1
    /\ toolCalls' = ResponseToolCalls(stub, iteration + 1)
    /\ tc' = 1
    /\ pc' = "tools"
    /\ UNCHANGED <<conversationID, store, saved, memStore, clock, envVars, lockVars, scopeVars, turn, userInput, onChunk,
                   conv, fullMessages, response, appended, result, bg, handled, sink, saves,
                   preTurn, built, added>>

\* the response has tool calls: the assistant message is appended
CompleteToolCalls ==
    /\ LoopEntered
    /\ stub # <<>>
    /\ iteration' = iteration + 1
    /\ completeCount' = completeCount + 1
    /\ toolCalls' = ResponseToolCalls(stub, iteration + 1)
    /\ fullMessages' = Append(fullMessages, AssistantToolCalls(<<>>, toolCalls'))
    /\ tc' = 1
    /\ pc' = "tools"
    /\ UNCHANGED <<conversationID, store, saved, memStore, clock, envVars, lockVars, scopeVars, turn, userInput, onChunk,
                   conv, response, appended, result, bg, handled, sink, saves, preTurn, built,
                   added>>

\* the position after the call at index tc: the next call, or the loop test
NextCall == IF tc + 1 > Len(toolCalls) THEN "loop" ELSE "tools"

AtToolCall == pc = "tools" /\ tc <= Len(toolCalls)

Handled(call, step, confirm) == [ID |-> call.ID, step |-> step, confirm |-> confirm]

\* mutant: a call without function descriptor is answered by a tool message
SkipToolCallAnswered ==
    /\ AtToolCall
    /\ ~toolCalls[tc].Function
    /\ fullMessages' = Append(fullMessages,
                              ToolMessage(toolCalls[tc].ID, "", <<"Error:", "no", "function">>))
    /\ handled' = Append(handled, Handled(toolCalls[tc], "skipped", "nil"))
    /\ tc' = tc + 1
    /\ pc' = NextCall
    /\ UNCHANGED <<conversationID, store, saved, memStore, clock, envVars, lockVars, scopeVars, turn,
                   userInput, onChunk, conv, iteration, toolCalls, response, appended, result,
                   bg, completeCount, sink, saves, preTurn, built, added>>

\* "if tc.Function == nil { continue }"
SkipToolCall ==
    /\ AtToolCall
    /\ ~toolCalls[tc].Function
    /\ handled' = Append(handled, Handled(toolCalls[tc], "skipped", "nil"))
    /\ tc' = tc + 1
    /\ pc' = NextCall
    /\ UNCHANGED <<conversationID, store, saved, memStore, clock, envVars, lockVars, scopeVars, turn, userInput, onChunk,
                   conv, fullMessages, iteration, toolCalls, response, appended, result, bg,
                   completeCount, sink, saves, preTurn, built, added>>

\* mutant: the parse error is logged, but no tool message is appended
ToolCallParseErrorSilent ==
    /\ AtToolCall
    /\ toolCalls[tc].Function
    /\ ~ParseToolCallOK(toolCalls[tc].Arguments)
    /\ handled' = Append(handled, Handled(toolCalls[tc], "parseError", "nil"))
    /\ tc' = tc + 1
    /\ pc' = NextCall
    /\ UNCHANGED <<conversationID, store, saved, memStore, clock, envVars, lockVars, scopeVars, turn, userInput, onChunk,
                   conv, fullMessages, iteration, toolCalls, response, appended, result, bg,
                   completeCount, sink, saves, preTurn, built, added>>

\* ParseToolCall fails: a tool message with the parse error, then "continue"
ToolCallParseError ==
    /\ AtToolCall
    /\ toolCalls[tc].Function
    /\ ~ParseToolCallOK(toolCalls[tc].Arguments)
    /\ fullMessages' = Append(fullMessages,
                              ToolMessage(toolCalls[tc].ID, toolCalls[tc].Name,
                                          ParseErrorContent))
    /\ handled' = Append(handled, Handled(toolCalls[tc], "parseError", "nil"))
    /\ tc' = tc + 1
    /\ pc' = NextCall
    /\ UNCHANGED <<conversationID, store, saved, memStore, clock, envVars, lockVars, scopeVars, turn, userInput, onChunk,
                   conv, iteration, toolCalls, response, appended, result, bg, completeCount,
                   sink, saves, preTurn, built, added>>

\* the call parsed and reaches "Request confirmation before execution"
AtConfirmation ==
    /\ AtToolCall
    /\ toolCalls[tc].Function
    /\ ParseToolCallOK(toolCalls[tc].Arguments)

\* the tools.ToolCall ParseToolCall returns
ParsedCall(call) == [ID |-> call.ID, Name |-> call.Name, RawArgs |-> call.Arguments]

\* mutant: the hook's answer is looked at only after the tool ran
ToolCallDeniedAfterExecute ==
    /\ AtConfirmation
    /\ onToolConfirm # "nil"
    /\ fullMessages' = Append(fullMessages,
                              ToolMessage(toolCalls[tc].ID, toolCalls[tc].Name,
                                          ResultContent(Execute(ParsedCall(toolCalls[tc])))))
    /\ handled' = handled \o <<Handled(toolCalls[tc], "executed", "false"),
                                Handled(toolCalls[tc], "denied", "false")>>
    /\ result' = [text |-> <<>>, err |-> "ErrToolDenied"]
    /\ pc' = "done"
    /\ UNCHANGED <<conversationID, store, saved, memStore, clock, envVars, lockVars, scopeVars, turn, userInput, onChunk,
                   conv, iteration, toolCalls, tc, response, appended, bg, completeCount, sink,
                   saves, preTurn, built, added>>

\* onToolConfirm is set and returns false: "return "", ErrToolDenied"
ToolCallDenied ==
    /\ AtConfirmation
    /\ onToolConfirm # "nil"
    /\ handled' = Append(handled, Handled(toolCalls[tc], "denied", "false"))
    /\ result' = [text |-> <<>>, err |-> "ErrToolDenied"]
    /\ pc' = "done"
    /\ UNCHANGED <<conversationID, store, saved, memStore, clock, envVars, lockVars, scopeVars, turn, userInput, onChunk,
                   conv, fullMessages, iteration, toolCalls, tc, response, appended, bg,
                   completeCount, sink, saves, preTurn, built, added>>

\* mutant: the echo tool is taken to be safe and runs without the hook being asked
ExecuteToolCallUnasked ==
    /\ AtConfirmation
    /\ fullMessages' = Append(fullMessages,
                              ToolMessage(toolCalls[tc].ID, toolCalls[tc].Name,
                                          ResultContent(Execute(ParsedCall(toolCalls[tc])))))
    /\ handled' = Append(handled,
                         Handled(toolCalls[tc], "executed",
                                 IF onToolConfirm # "nil" /\ toolCalls[tc].Name # "echo"
                                 THEN "true" ELSE "nil"))
    /\ tc' = tc + 1
    /\ pc' = NextCall
    /\ UNCHANGED <<conversationID, store, saved, memStore, clock, envVars, lockVars, scopeVars,
                   turn, userInput, onChunk, conv, iteration, toolCalls, response, appended,
                   result, bg, completeCount, sink, saves, preTurn, built, added>>

\* mutant: an error result ends the turn
ExecuteToolCallFatal ==
    /\ AtConfirmation
    /\ fullMessages' = Append(fullMessages,
                              ToolMessage(toolCalls[tc].ID, toolCalls[tc].Name,
                                          ResultContent(Execute(ParsedCall(toolCalls[tc])))))
    /\ handled' = Append(handled,
                         Handled(toolCalls[tc], "executed",
                                 IF onToolConfirm # "nil" THEN "true" ELSE "nil"))
    /\ IF Execute(ParsedCall(toolCalls[tc])).Error # <<>>
       THEN /\ result' = [text |-> <<>>, err |-> "tool execution"]
            /\ pc' = "done"
            /\ tc' = tc
       ELSE /\ tc' = tc + 1
            /\ pc' = NextCall
            /\ result' = result
    /\ UNCHANGED <<conversationID, store, saved, memStore, clock, envVars, lockVars, scopeVars, turn,
                   userInput, onChunk, conv, iteration, toolCalls, response, appended, bg,
                   completeCount, sink, saves, preTurn, built, added>>

\* no hook, or the hook returns true: Execute, and the tool message with the result
ExecuteToolCall ==
    /\ AtConfirmation
    /\ fullMessages' = Append(fullMessages,
                              ToolMessage(toolCalls[tc].ID, toolCalls[tc].Name,
                                          ResultContent(Execute(ParsedCall(toolCalls[tc])))))
    /\ handled' = Append(handled,
                         Handled(toolCalls[tc], "executed",
                                 IF onToolConfirm # "nil" THEN "true" ELSE "nil"))
    /\ tc' = tc + 1
    /\ pc' = NextCall
    /\ UNCHANGED <<conversationID, store, saved, memStore, clock, envVars, lockVars, scopeVars, turn, userInput, onChunk,
                   conv, iteration, toolCalls, response, appended, result, bg, completeCount,
                   sink, saves, preTurn, built, added>>

\* the loop was left: by "break", or because the loop test failed
LoopLeft == pc = "after" \/ (pc = "loop" /\ ~(iteration < maxIterations))

\* "if iteration >= maxIterations": the error return after the loop
IterationLimitHit == iteration >= maxIterations

\* mutant: the limit is reported with the sentinel of the denial
MaxIterationsReachedAsDenial ==
    /\ LoopLeft
    /\ IterationLimitHit
    /\ result' = [text |-> <<>>, err |-> "ErrToolDenied"]
    /\ pc' = "done"
    /\ UNCHANGED <<conversationID, store, saved, memStore, clock, envVars, lockVars, scopeVars, turn, userInput, onChunk,
                   conv, fullMessages, iteration, toolCalls, tc, response, appended, bg,
                   histVars>>

MaxIterationsReached ==
    /\ LoopLeft
    /\ IterationLimitHit
    /\ result' = [text |-> <<>>, err |-> "max tool iterations reached"]
    /\ pc' = "done"
    /\ UNCHANGED <<conversationID, store, saved, memStore, clock, envVars, lockVars, scopeVars, turn, userInput, onChunk,
                   conv, fullMessages, iteration, toolCalls, tc, response, appended, bg,
                   histVars>>

\* mutant: the tool rounds of the turn are recorded too
TurnRecordsWithTools ==
    <<Message("user", userInput)>>
    \o SubSeq(fullMessages, Len(built.context) + 3, Len(fullMessages))
    \o <<Message("assistant", response)>>

\* the two records ChatStream appends to conv.Messages
TurnRecords == <<Message("user", userInput), Message("assistant", response)>>

\* mutant: onChunk is called with the response even when it is empty
DeliverAndAppendAlways ==
    /\ LoopLeft
    /\ ~IterationLimitHit
    /\ sink' = IF onChunk # "nil" THEN Append(sink, response) ELSE sink
    /\ appended' = conv[turn].Messages \o TurnRecords
    /\ pc' = "assign"
    /\ UNCHANGED <<conversationID, store, saved, memStore, clock, envVars, lockVars, scopeVars, turn, userInput, onChunk,
                   conv, fullMessages, iteration, toolCalls, tc, response, result, bg,
                   completeCount, handled, saves, preTurn, built, added>>

\* onChunk(response), and the evaluation of append(conv.Messages, user, assistant)
DeliverAndAppend ==
    /\ LoopLeft
    /\ ~IterationLimitHit
    /\ sink' = IF onChunk # "nil" /\ response # <<>> THEN Append(sink, response) ELSE sink
    /\ appended' = conv[turn].Messages \o TurnRecords
    /\ pc' = "assign"
    /\ UNCHANGED <<conversationID, store, saved, memStore, clock, envVars, lockVars, scopeVars, turn, userInput, onChunk,
                   conv, fullMessages, iteration, toolCalls, tc, response, result, bg,
                   completeCount, handled, saves, preTurn, built, added>>

\* "conv.Messages = append(...)": the store into the shared Conversation
AssignMessages ==
    /\ pc = "assign"
    /\ conv' = [conv EXCEPT ![turn].Messages = appended]
    /\ pc' = "save"
    /\ UNCHANGED <<conversationID, store, saved, memStore, clock, envVars, lockVars, scopeVars, turn, userInput, onChunk,
                   fullMessages, iteration, toolCalls, tc, response, appended, result, bg,
                   histVars>>

\* mutant: the turn waits for its goroutine before it saves
SaveAndReturnAfterGoroutine ==
    /\ pc = "save"
    /\ bg[turn].pc \in {"none", "done"}
    /\ store' = SaveConversation(conv[turn])
    /\ saved' = Saved(conv[turn])
    /\ saves' = [saves EXCEPT ![turn] = @ + 1]
    /\ result' = [text |-> response, err |-> ""]
    /\ pc' = "done"
    /\ UNCHANGED <<conversationID, memStore, clock, envVars, lockVars, scopeVars, turn, userInput, onChunk, conv,
                   fullMessages, iteration, toolCalls, tc, response, appended, bg,
                   completeCount, handled, sink, preTurn, built, added>>

\* "a.store.SaveConversation(conv)" and "return response, nil"
SaveAndReturn ==
    /\ pc = "save"
    /\ store' = SaveConversation(conv[turn])
    /\ saved' = Saved(conv[turn])
    /\ saves' = [saves EXCEPT ![turn] = @ + 1]
    /\ result' = [text |-> response, err |-> ""]
    /\ pc' = "done"
    /\ UNCHANGED <<conversationID, memStore, clock, envVars, lockVars, scopeVars, turn, userInput, onChunk, conv,
                   fullMessages, iteration, toolCalls, tc, response, appended, bg,
                   completeCount, handled, sink, preTurn, built, added>>

----------------------------------------------------------------------------
(* memory.Manager.summarizeConversation, started by "go" in BuildContext of turn t. *)
(* It works on conv[t], the object the turn holds, without any lock; only        *)
(* SaveConversation takes the store's lock.                                       *)

bgUnchanged == <<conversationID, envVars, lockVars, scopeVars, turn, turnVars, completeCount, handled, sink, preTurn,
                  built, added>>

\* the two early returns of summarizeConversation
NothingToSummarize(c) ==
    Len(c.Messages) < cfg.summarizeWhen \/ Len(c.Messages) <= keepCount

\* "toSummarize := conv.Messages[:len(conv.Messages)-keepCount]"
ToSummarize(c) == SubSeq(c.Messages, 1, Len(c.Messages) - keepCount)

\* "conv.Messages[len(conv.Messages)-keepCount:]"
Kept(c) == SubSeq(c.Messages, Len(c.Messages) - keepCount + 1, Len(c.Messages))

RECURSIVE formatMessagesForSummary(_)
\* "role: content" per message
formatMessagesForSummary(messages) ==
    IF messages = <<>> THEN <<>>
    ELSE <<Head(messages).Role>> \o Head(messages).Content
         \o formatMessagesForSummary(Tail(messages))

SummarizeStart(t) ==
    /\ bg[t].pc = "start"
    /\ bg' = [bg EXCEPT ![t] =
                IF NothingToSummarize(conv[t])
                THEN [@ EXCEPT !.pc = "done"]
                ELSE [@ EXCEPT !.pc = "complete", !.toSummarize = ToSummarize(conv[t])]]
    /\ UNCHANGED <<store, saved, memStore, clock, conv, saves>>
    /\ UNCHANGED bgUnchanged

\* mutant: the error of provider.Complete is ignored and the pass goes on with
\* the empty content of the failed response
SummarizeFailsIgnored(t) ==
    /\ bg[t].pc = "complete"
    /\ bg' = [bg EXCEPT ![t].pc = "setSummary", ![t].summary = <<>>]
    /\ UNCHANGED <<store, saved, memStore, clock, conv, saves>>
    /\ UNCHANGED bgUnchanged

\* provider.Complete fails: "summarization failed", return
SummarizeFails(t) ==
    /\ bg[t].pc = "complete"
    /\ bg' = [bg EXCEPT ![t].pc = "done"]
    /\ UNCHANGED <<store, saved, memStore, clock, conv, saves>>
    /\ UNCHANGED bgUnchanged

\* provider.Complete returns the summary
SummarizeCompletes(t) ==
    /\ bg[t].pc = "complete"
    /\ bg' = [bg EXCEPT ![t].pc = "setSummary",
                        ![t].summary = <<"summary", "by", ToString(t)>>]
    /\ UNCHANGED <<store, saved, memStore, clock, conv, saves>>
    /\ UNCHANGED bgUnchanged

\* "conv.Summary = resp.Content"
SetSummary(t) ==
    /\ bg[t].pc = "setSummary"
    /\ conv' = [conv EXCEPT ![t].Summary = bg[t].summary]
    /\ bg' = [bg EXCEPT ![t].pc = "slice"]
    /\ UNCHANGED <<store, saved, memStore, clock, saves>>
    /\ UNCHANGED bgUnchanged

\* the right-hand side of "conv.Messages = conv.Messages[len(conv.Messages)-keepCount:]"
SliceMessages(t) ==
    /\ bg[t].pc = "slice"
    /\ bg' = [bg EXCEPT ![t].pc = "truncate", ![t].kept = Kept(conv[t])]
    /\ UNCHANGED <<store, saved, memStore, clock, conv, saves>>
    /\ UNCHANGED bgUnchanged

\* the store of the sliced list into conv.Messages
TruncateMessages(t) ==
    /\ bg[t].pc = "truncate"
    /\ conv' = [conv EXCEPT ![t].Messages = bg[t].kept]
    /\ bg' = [bg EXCEPT ![t].pc = "save"]
    /\ UNCHANGED <<store, saved, memStore, clock, saves>>
    /\ UNCHANGED bgUnchanged

\* "m.store.SaveConversation(conv)"
SaveSummarized(t) ==
    /\ bg[t].pc = "save"
    /\ store' = SaveConversation(conv[t])
    /\ saved' = Saved(conv[t])
    /\ saves' = [saves EXCEPT ![t] = @ + 1]
    /\ bg' = [bg EXCEPT ![t].pc = "extract"]
    /\ UNCHANGED <<memStore, clock, conv>>
    /\ UNCHANGED bgUnchanged

----------------------------------------------------------------------------
(* memory.Manager.extractMemories *)

\* a line of the extraction response: the text before its first colon, whether it
\* has a colon, the text after it (both trimmed)
Line(before, colon, after) == [before |-> before, colon |-> colon, after |-> after]

\* the responses of the provider to the extraction prompt: no line, or three lines
ExtractResponses ==
    {<<>>,
     <<Line("fact", TRUE, <<"user", "likes", "golang">>),
       Line("mood", TRUE, <<"happy">>),
       Line("nocolon", FALSE, <<>>)>>}

\* the lines extractMemories stores: "len(parts) == 2"
RECURSIVE StoredLines(_)
StoredLines(lines) ==
    IF lines = <<>> THEN <<>>
    ELSE (IF Head(lines).colon THEN <<Head(lines)>> ELSE <<>>) \o StoredLines(Tail(lines))

\* the type extractMemories gives the item of a line
ExtractedType(line) == IF line.before \in MemoryTypes THEN line.before ELSE "fact"

RECURSIVE SaveExtracted(_, _, _, _)
\* the loop of extractMemories over the stored lines; ticks[i] is how far the
\* nanosecond clock moved before the i-th generateID
SaveExtracted(memories, lines, now, ticks) ==
    IF lines = <<>> THEN memories
    ELSE SaveExtracted(
            SaveMemory(memories, [ID |-> now + Head(ticks), Content |-> Head(lines).after,
                                  Type |-> ExtractedType(Head(lines)), Relevance |-> 7]),
            Tail(lines), now + Head(ticks), Tail(ticks))

RECURSIVE Sum(_)
Sum(s) == IF s = <<>> THEN 0 ELSE Head(s) + Sum(Tail(s))

\* how far the clock moves before each of n generateID calls of one extraction:
\* the first call follows the provider call, so the clock has moved; between two
\* calls of the loop it may not have
ExtractionTicks(n) == {ticks \in [1..n -> {0, 1}] : n > 0 => ticks[1] = 1}

\* provider.Complete fails: "memory extraction failed", return
ExtractFails(t) ==
    /\ bg[t].pc = "extract"
    /\ bg' = [bg EXCEPT ![t].pc = "done"]
    /\ UNCHANGED <<store, saved, memStore, clock, conv, saves>>
    /\ UNCHANGED bgUnchanged

ExtractCompletes(t) ==
    /\ bg[t].pc = "extract"
    /\ \E lines \in ExtractResponses :
         \E ticks \in ExtractionTicks(Len(StoredLines(lines))) :
            /\ memStore' = SaveExtracted(memStore, StoredLines(lines), clock, ticks)
            /\ clock' = clock + Sum(ticks)
            /\ bg' = [bg EXCEPT ![t].pc = "done", ![t].lines = lines]
    /\ UNCHANGED <<store, saved, conv, saves>>
    /\ UNCHANGED bgUnchanged

----------------------------------------------------------------------------
(* The specification *)

Foreground ==
    \/ SetConversation("")
    \/ \E call \in caller.calls : ChatStreamBegin(call.input, call.onChunk)
    \/ \E call \in AddMemoryCalls : AddMemory(call.content, call.type)
    \/ CompleteError
    \/ CompleteFinal
    \/ CompleteToolCalls
    \/ SkipToolCall
    \/ ToolCallParseError
    \/ ToolCallDenied
    \/ ExecuteToolCall
    \/ MaxIterationsReached
    \/ DeliverAndAppend
    \/ AssignMessages
    \/ SaveAndReturn

Background ==
    \E t \in Turns :
        \/ SummarizeStart(t)
        \/ SummarizeFails(t)
        \/ SummarizeCompletes(t)
        \/ SetSummary(t)
        \/ SliceMessages(t)
        \/ TruncateMessages(t)
        \/ SaveSummarized(t)
        \/ ExtractFails(t)
        \/ ExtractCompletes(t)

Next == Foreground \/ Background

Spec == Init /\ [][Next]_vars

\* the steps of a started ChatStream call, from the first loop test to its return
TurnStep ==
    \/ CompleteError
    \/ CompleteFinal
    \/ CompleteToolCalls
    \/ SkipToolCall
    \/ ToolCallParseError
    \/ ToolCallDenied
    \/ ExecuteToolCall
    \/ MaxIterationsReached
    \/ DeliverAndAppend
    \/ AssignMessages
    \/ SaveAndReturn

\* ChatStream runs on the calling thread, and every provider call and tool
\* execution returns (each runs under the context's deadline): a started call
\* keeps taking steps.  Nothing is assumed about the goroutine.
FairSpec == Spec /\ WF_vars(TurnStep)

----------------------------------------------------------------------------
(* JSONStore: the methods and the lock, called by concurrent goroutines *)

\* the JSONStore method calls started in one behaviour
MaxStoreCalls == 3

\* the methods that take s.mu.Lock() and those that take s.mu.RLock()
WriteOps == {"SaveConversation", "DeleteConversation", "SaveMemory", "DeleteMemory"}
ReadOps == {"LoadConversation", "ListConversations", "LoadMemories"}

\* a conversation as a turn saves it: a tool round and a summary
TurnMessages ==
    <<Message("user", <<"hello">>),
      AssistantToolCalls(<<>>, <<[ID |-> 1, Function |-> TRUE, Name |-> "echo",
                                  Arguments |-> "{\"text\": \"test\"}"],
                                 [ID |-> 2, Function |-> FALSE, Name |-> "",
                                  Arguments |-> ""]>>),
      ToolMessage(1, "echo", <<"test">>),
      Message("assistant", <<"response", "2">>)>>

\* the conversations the goroutines save
SavedConversations ==
    {Conversation(id, TurnMessages, <<"a", "summary">>) : id \in ConvIDs}
    \cup {Conversation("default", <<>>, <<>>)}

\* the memory items the goroutines save
SavedMemories == {MemoryItem(1, <<"likes", "golang">>, "fact", 7)}

Call(op, id, c, item) == [op |-> op, pc |-> "wait", id |-> id, conv |-> c, item |-> item]

\* the calls a goroutine may make: a foreground caller makes them all, the
\* summarizer saves the conversation and the extracted items
StoreCalls(g) ==
    {Call("SaveConversation", c.ID, c, NoCall.item) : c \in SavedConversations}
    \cup {Call("SaveMemory", "", NotFound, item) : item \in SavedMemories}
    \cup (IF g = "summarizer" THEN {}
          ELSE {Call(op, id, NotFound, NoCall.item) :
                    op \in {"LoadConversation", "DeleteConversation"}, id \in ConvIDs}
               \cup {Call(op, "", NotFound, NoCall.item) :
                        op \in {"ListConversations", "LoadMemories"}}
               \cup {Call("DeleteMemory", "", NotFound, item) : item \in SavedMemories})

\* a goroutine calls a method of the store
StoreCall(g) ==
    /\ inStore[g] = NoCall
    /\ nCalls < MaxStoreCalls
    /\ \E c \in StoreCalls(g) : inStore' = [inStore EXCEPT ![g] = c]
    /\ nCalls' = nCalls + 1
    /\ UNCHANGED <<mu, ret, saved, store, memStore>>

\* mutant: the write methods take the read lock
LockShared(g) ==
    /\ inStore[g].pc = "wait"
    /\ inStore[g].op \in WriteOps
    /\ mu.writer = "none"
    /\ mu' = [mu EXCEPT !.readers = @ \cup {g}]
    /\ inStore' = [inStore EXCEPT ![g].pc = "held"]
    /\ UNCHANGED <<nCalls, ret, saved, store, memStore>>

\* "s.mu.Lock()": granted when no goroutine holds the lock in either mode
Lock(g) ==
    /\ inStore[g].pc = "wait"
    /\ inStore[g].op \in WriteOps
    /\ mu = Unlocked
    /\ mu' = [mu EXCEPT !.writer = g]
    /\ inStore' = [inStore EXCEPT ![g].pc = "held"]
    /\ UNCHANGED <<nCalls, ret, saved, store, memStore>>

\* "s.mu.RLock()": granted when no goroutine holds the write lock
RLock(g) ==
    /\ inStore[g].pc = "wait"
    /\ inStore[g].op \in ReadOps
    /\ mu.writer = "none"
    /\ mu' = [mu EXCEPT !.readers = @ \cup {g}]
    /\ inStore' = [inStore EXCEPT ![g].pc = "held"]
    /\ UNCHANGED <<nCalls, ret, saved, store, memStore>>

\* "defer s.mu.Unlock()", "defer s.mu.RUnlock()": the method returns
Return(g, r) ==
    /\ mu' = [writer |-> IF mu.writer = g THEN "none" ELSE mu.writer,
              readers |-> mu.readers \ {g}]
    /\ inStore' = [inStore EXCEPT ![g] = NoCall]
    /\ ret' = r
    /\ UNCHANGED nCalls

Holds(g, op) == inStore[g].pc = "held" /\ inStore[g].op = op

Returns(op, id, c, ids, err) == [op |-> op, id |-> id, conv |-> c, ids |-> ids, err |-> err]

\* JSONStore.SaveConversation
JSONStore_SaveConversation(g) ==
    /\ Holds(g, "SaveConversation")
    /\ store' = SaveConversation(inStore[g].conv)
    /\ saved' = Saved(inStore[g].conv)
    /\ Return(g, Returns("SaveConversation", inStore[g].id, NotFound, {}, ""))
    /\ UNCHANGED memStore

\* JSONStore.LoadConversation
JSONStore_LoadConversation(g) ==
    /\ Holds(g, "LoadConversation")
    /\ LET c == LoadConversation(inStore[g].id) IN
          Return(g, Returns("LoadConversation", inStore[g].id, c, {},
                            IF c = NotFound THEN "ErrNotFound" ELSE ""))
    /\ UNCHANGED <<store, saved, memStore>>

\* JSONStore.ListConversations: the names of the .json files, without the extension
ListConversations == {f \in Files : store[f] # NotFound}

JSONStore_ListConversations(g) ==
    /\ Holds(g, "ListConversations")
    /\ Return(g, Returns("ListConversations", "", NotFound, ListConversations, ""))
    /\ UNCHANGED <<store, saved, memStore>>

\* JSONStore.DeleteConversation: os.Remove on the id's path; its error when
\* there is no such file
JSONStore_DeleteConversation(g) ==
    /\ Holds(g, "DeleteConversation")
    /\ IF LoadConversation(inStore[g].id) = NotFound
       THEN /\ Return(g, Returns("DeleteConversation", inStore[g].id, NotFound, {}, "remove"))
            /\ UNCHANGED <<store, saved>>
       ELSE /\ store' = [store EXCEPT ![PathOf(inStore[g].id)] = NotFound]
            /\ saved' = [saved EXCEPT ![inStore[g].id] = NotFound]
            /\ Return(g, Returns("DeleteConversation", inStore[g].id, NotFound, {}, ""))
    /\ UNCHANGED memStore

\* JSONStore.SaveMemory
JSONStore_SaveMemory(g) ==
    /\ Holds(g, "SaveMemory")
    /\ memStore' = SaveMemory(memStore, inStore[g].item)
    /\ Return(g, Returns("SaveMemory", "", NotFound, {inStore[g].item.ID}, ""))
    /\ UNCHANGED <<store, saved>>

\* JSONStore.LoadMemories
JSONStore_LoadMemories(g) ==
    /\ Holds(g, "LoadMemories")
    /\ Return(g, Returns("LoadMemories", "", NotFound,
                         {m.ID : m \in LoadMemories(memStore)}, ""))
    /\ UNCHANGED <<store, saved, memStore>>

\* JSONStore.DeleteMemory: os.Remove on memory/<id>.json
JSONStore_DeleteMemory(g) ==
    /\ Holds(g, "DeleteMemory")
    /\ memStore' = {m \in memStore : m.ID # inStore[g].item.ID}
    /\ Return(g, Returns("DeleteMemory", "", NotFound, {inStore[g].item.ID},
                         IF \E m \in memStore : m.ID = inStore[g].item.ID
                         THEN "" ELSE "remove"))
    /\ UNCHANGED <<store, saved>>

\* everything but the store, its lock and its callers
agentVars == <<conversationID, clock, envVars, turn, turnVars, conv, bg, histVars, scopeVars>>

StoreNext ==
    /\ \E g \in Goroutines :
          \/ StoreCall(g)
          \/ Lock(g)
          \/ RLock(g)
          \/ JSONStore_SaveConversation(g)
          \/ JSONStore_LoadConversation(g)
          \/ JSONStore_ListConversations(g)
          \/ JSONStore_DeleteConversation(g)
          \/ JSONStore_SaveMemory(g)
          \/ JSONStore_LoadMemories(g)
          \/ JSONStore_DeleteMemory(g)
    /\ UNCHANGED agentVars

\* the store of an agent at rest, with and without a conversation file and a
\* memory file
StoreInit ==
    /\ Init
    /\ stub = <<>>
    /\ cfg = TestConfig
    /\ ~emptyFinal
    /\ caller = Caller(RecallCalls, 0)
    /\ memStore \in {{}, StoredMemories}

StoreSpec == StoreInit /\ [][StoreNext]_vars

----------------------------------------------------------------------------
(* The scope of a turn and the shell tool's Executor *)

\* the seconds of one step of the time
TimeStep == 30

\* the last time the model looks at
MaxTime == 150

\* the "timeout" argument of a shell call, in seconds; 0 stands for an absent
\* argument
TimeoutArgs == {0, 60, 200}

\* "timeout := 30; if t > 0 { timeout = int(t); if timeout > 120 { timeout = 120 } }"
ShellTimeout(t) == IF t > 0 THEN (IF t > 120 THEN 120 ELSE t) ELSE 30

\* the seconds the command would run if nobody stopped it
Durations == {0, 30, 90, 150}

\* the deadlines a caller gives the turn's ctx, in seconds from the start
Deadlines == {30, 90}

\* the caller has made ChatStream's ctx with context.WithTimeout
WithTimeout(d) ==
    /\ elapsed = 0
    /\ shell = NoShell
    /\ ctx = Background_ctx
    /\ ctx' = [ctx EXCEPT !.deadline = d]
    /\ UNCHANGED <<elapsed, shell>>

\* the caller cancels ChatStream's ctx
Cancel ==
    /\ ~ctx.cancelled
    /\ ctx' = [ctx EXCEPT !.cancelled = TRUE, !.cancelledAt = elapsed]
    /\ UNCHANGED <<elapsed, shell>>

\* ctx.Done() is closed: the ctx was cancelled or its deadline has passed
Done(c, t) == c.cancelled \/ (c.deadline >= 0 /\ t >= c.deadline)

\* the command of the running shell call has ended by itself
CommandEnded == elapsed - shell.started >= shell.duration

\* the Executor's own ctx, made from context.Background(), is past its deadline
DeadlineExceeded == elapsed - shell.started >= shell.timeout

\* the time as it would pass if the Executor's ctx were derived from the ctx
\* that Registry.Execute got: the command is killed before the time moves on
TickInScope ==
    /\ elapsed < MaxTime
    /\ shell.pc = "running" => ~(CommandEnded \/ DeadlineExceeded \/ Done(ctx, elapsed))
    /\ elapsed' = elapsed + TimeStep
    /\ UNCHANGED <<ctx, shell>>

\* time passes; exec.CommandContext kills the command when the Executor's own
\* ctx is past its deadline, and CombinedOutput returns when the command ends
Tick ==
    /\ elapsed < MaxTime
    /\ shell.pc = "running" => ~(CommandEnded \/ DeadlineExceeded)
    /\ elapsed' = elapsed + TimeStep
    /\ UNCHANGED <<ctx, shell>>

\* Registry.Execute calls the shell tool's Executor; the ctx it was given is
\* not passed on
ShellStart(t, d) ==
    /\ shell.pc \in {"idle", "returned"}
    /\ shell' = [pc |-> "running", timeout |-> ShellTimeout(t), duration |-> d,
                 started |-> elapsed, err |-> ""]
    /\ UNCHANGED <<elapsed, ctx>>

\* "if ctx.Err() == context.DeadlineExceeded": the command was killed
ShellTimesOut ==
    /\ shell.pc = "running"
    /\ DeadlineExceeded
    /\ shell' = [shell EXCEPT !.pc = "returned", !.err = "command timed out"]
    /\ UNCHANGED <<elapsed, ctx>>

\* the command ended before the Executor's deadline: its output is returned
ShellReturns ==
    /\ shell.pc = "running"
    /\ CommandEnded
    /\ ~DeadlineExceeded
    /\ shell' = [shell EXCEPT !.pc = "returned"]
    /\ UNCHANGED <<elapsed, ctx>>

ScopeNext ==
    /\ \/ \E d \in Deadlines : WithTimeout(d)
       \/ Cancel
       \/ Tick
       \/ \E t \in TimeoutArgs, d \in Durations : ShellStart(t, d)
       \/ ShellTimesOut
       \/ ShellReturns
    /\ UNCHANGED <<conversationID, store, memStore, clock, envVars, turn, turnVars, conv, bg,
                   histVars, lockVars, saved>>

ScopeSpec == StoreInit /\ [][ScopeNext]_vars

----------------------------------------------------------------------------
(* Switching among conversations: "/new", "/switch", "/delete" *)

\* the ids SetConversation is called with
SwitchIDs == ConvIDs \cup {""}

\* mutant: SetConversation starts every conversation afresh
SetConversationAfresh(id) ==
    LET cid == IF id = "" THEN "default" ELSE id IN
    /\ pc \in {"idle", "done"}
    /\ conversationID' = cid
    /\ store' = SaveConversation(Conversation(cid, <<>>, <<>>))
    /\ saved' = Saved(Conversation(cid, <<>>, <<>>))
    /\ UNCHANGED <<memStore, clock, envVars, lockVars, scopeVars, turn, turnVars, conv, bg,
                   histVars>>

\* Agent.DeleteConversation, JSONStore.DeleteConversation: the file at the id's
\* path is removed; without such a file the call returns os.Remove's error
DeleteConversation(id) ==
    /\ pc \in {"idle", "done"}
    /\ LoadConversation(id) # NotFound
    /\ store' = [store EXCEPT ![PathOf(id)] = NotFound]
    /\ saved' = [saved EXCEPT ![id] = NotFound]
    /\ UNCHANGED <<conversationID, memStore, clock, envVars, lockVars, scopeVars, turn,
                   turnVars, conv, bg, histVars>>

SwitchNext ==
    \/ \E id \in SwitchIDs : SetConversation(id)
    \/ \E id \in ConvIDs : DeleteConversation(id)

SwitchSpec == StoreInit /\ [][SwitchNext]_vars

----------------------------------------------------------------------------
(* Helpers of the properties *)

Range(s) == {s[i] : i \in 1..Len(s)}

\* a ChatStream call has returned
Returned == pc = "done" /\ turn > 0

\* a ChatStream call is running
Running == pc \notin {"idle", "done"}

\* the call of the turn that has the given id, as the stub built it
RoundOf(id) == ((id - 1) \div MaxCalls) + 1
IndexOf(id) == ((id - 1) % MaxCalls) + 1
CallOfID(id) == ResponseToolCalls(stub, RoundOf(id))[IndexOf(id)]

\* the ids of the calls executed in the turn, in the order of execution
RECURSIVE ExecutedIDs(_)
ExecutedIDs(h) ==
    IF h = <<>> THEN <<>>
    ELSE (IF Head(h).step = "executed" THEN <<Head(h).ID>> ELSE <<>>) \o ExecutedIDs(Tail(h))

\* every response of the turn so far carried tool calls, and no call was denied
OnlyToolCallResponses ==
    /\ Cardinality({i \in 1..Len(fullMessages) : fullMessages[i].ToolCalls # <<>>}) = completeCount
    /\ result.err \notin {"loading conversation", "LLM completion", "ErrToolDenied"}

----------------------------------------------------------------------------
(* C1 *)

\* C1 (safety part): a turn never makes more than 10 provider calls, and a turn
\* in which every provider response carried tool calls (none of them denied)
\* returns the iteration-limit error, with empty text, after exactly 10 calls.
C1_LimitAfterTenCalls ==
    /\ completeCount <= 10
    /\ (Returned /\ OnlyToolCallResponses) =>
          /\ result = [text |-> <<>>, err |-> "max tool iterations reached"]
          /\ completeCount = 10
          /\ iteration = 10

\* C1: if the provider returns tool calls on every call, ChatStream terminates:
\* it makes exactly 10 provider calls and then fails with the iteration-limit
\* error; a started call always returns.
C1_TerminatesAtLimit == [](C1_LimitAfterTenCalls) /\ (Running ~> Returned)

\* C1 witness: a turn of ten tool-call responses has returned the limit error
C1_Witness ==
    /\ Returned
    /\ OnlyToolCallResponses
    /\ completeCount = 10
    /\ result.err = "max tool iterations reached"
    /\ Len(ExecutedIDs(handled)) >= 10

----------------------------------------------------------------------------
(* C2 *)

\* C2: a turn whose k-th response (k = 1..10) is the first without tool calls
\* returns that response's content without error, and the iteration-limit error
\* is returned only by a turn that got no response free of tool calls.
C2_FinalResponseIsReturned ==
    /\ (Returned /\ response # <<>>) => result = [text |-> response, err |-> ""]
    /\ (Returned /\ result.err = "max tool iterations reached") => response = <<>>

----------------------------------------------------------------------------
(* C3 *)

\* C3 as stated: after a turn that returned ErrToolDenied no tool was executed in
\* that turn.
C3_NoToolExecutedInDeniedTurn ==
    (Returned /\ result.err = "ErrToolDenied") => ExecutedIDs(handled) = <<>>

\* the tool messages of a list that answer the call with the given id
ToolMessagesOf(messages, id) ==
    {i \in 1..Len(messages) : messages[i].Role = "tool" /\ messages[i].ToolCallID = id}

\* C3 as amended: when the hook returns false for a call, ChatStream returns
\* ErrToolDenied with empty text at once: the denied call is the last one handled,
\* it is not executed and gets no tool message, and every call executed earlier
\* in the turn is one the hook approved.
C3_DeniedCallNotExecuted ==
    (result.err = "ErrToolDenied") =>
        /\ Returned
        /\ result.text = <<>>
        /\ onToolConfirm = "set"
        /\ handled # <<>>
        /\ handled[Len(handled)].step = "denied"
        /\ handled[Len(handled)].ID \notin Range(ExecutedIDs(handled))
        /\ ToolMessagesOf(fullMessages, handled[Len(handled)].ID) = {}
        /\ \A i \in 1..Len(handled) :
              handled[i].step = "executed" => handled[i].confirm = "true"

\* C3 witness: a denial after a call of the same turn was approved and executed
C3_Witness ==
    /\ Returned
    /\ result.err = "ErrToolDenied"
    /\ ExecutedIDs(handled) # <<>>
    /\ IndexOf(handled[Len(handled)].ID) = 2

----------------------------------------------------------------------------
(* C4, C5, C6 *)

\* the goroutine the turn started, if any, has returned
GoroutineFinished == bg[turn].pc \in {"none", "done"}

\* the stored record has the messages and the summary it had when the turn started
StoredAsBeforeTurn ==
    /\ store[conversationID].Messages = preTurn.Messages
    /\ store[conversationID].Summary = preTurn.Summary

\* C4: after a turn that returned ErrToolDenied, and once the goroutine it
\* started has finished, the stored conversation has the messages and the
\* summary it had before the turn.
C4_DeniedTurnLeavesStore ==
    (Returned /\ result.err = "ErrToolDenied" /\ GoroutineFinished) => StoredAsBeforeTurn

\* C5: a turn that succeeded caused exactly one SaveConversation; a turn that
\* failed with the iteration limit or a denial caused none, and the stored
\* record is the pre-turn one.
C5_SavesPerTurn ==
    (Returned /\ GoroutineFinished) =>
        /\ result.err = "" => saves[turn] = 1
        /\ result.err \in {"ErrToolDenied", "max tool iterations reached"} =>
              saves[turn] = 0 /\ StoredAsBeforeTurn

\* C6: after a turn that succeeded, the stored conversation ends with the two
\* records of the turn, the user message with the input and then the assistant
\* message with the final text, and holds no message with tool calls and no
\* tool message.
C6_TwoRecordsPersisted ==
    (Returned /\ result.err = "") =>
        LET stored == store[conversationID].Messages IN
        /\ Len(stored) >= 2
        /\ SubSeq(stored, Len(stored) - 1, Len(stored)) =
              <<Message("user", userInput), Message("assistant", result.text)>>
        /\ \A i \in 1..Len(stored) :
              stored[i].Role \in {"user", "assistant"} /\ stored[i].ToolCalls = <<>>

----------------------------------------------------------------------------
(* C7, C8 *)

\* the ids of the first n calls of a list that have a function descriptor
RECURSIVE DescribedIDs(_, _)
DescribedIDs(calls, n) ==
    IF n = 0 THEN <<>>
    ELSE DescribedIDs(calls, n - 1) \o (IF calls[n].Function THEN <<calls[n].ID>> ELSE <<>>)

\* the ids of all calls of a list
AllIDs(calls) == [j \in 1..Len(calls) |-> calls[j].ID]

\* the index of the last assistant message with tool calls (0: none)
LastRequest(messages) ==
    LET at == {i \in 1..Len(messages) : messages[i].ToolCalls # <<>>}
    IN IF at = {} THEN 0 ELSE CHOOSE i \in at : \A j \in at : j <= i

\* messages i+1.. are exactly tool messages answering ids, in that order
AnsweredBy(messages, i, ids) ==
    /\ Len(messages) >= i + Len(ids)
    /\ \A j \in 1..Len(ids) :
          messages[i + j].Role = "tool" /\ messages[i + j].ToolCallID = ids[j]
    /\ Len(messages) > i + Len(ids) => messages[i + Len(ids) + 1].Role # "tool"

\* every call of the list has a function descriptor
AllDescribed(calls) == \A j \in 1..Len(calls) : calls[j].Function

\* C7: the n calls of one response (each with a function descriptor) are handled
\* one at a time in the listed order, without a provider call in between: while
\* they are handled the working list ends with the request and one tool message
\* per call handled so far, each with the id of its call; when all are handled
\* it ends with exactly n tool messages in the order of the calls; and
\* ChatStream returns the content of the following response without tool calls.
C7_CallsAnsweredInOrder ==
    /\ (pc = "tools" /\ AllDescribed(toolCalls)) =>
          /\ completeCount = iteration
          /\ LastRequest(fullMessages) > 0
          /\ fullMessages[LastRequest(fullMessages)].ToolCalls = toolCalls
          /\ AnsweredBy(fullMessages, LastRequest(fullMessages),
                        SubSeq(AllIDs(toolCalls), 1, tc - 1))
    /\ (pc = "loop" /\ toolCalls # <<>> /\ AllDescribed(toolCalls)) =>
          AnsweredBy(fullMessages, LastRequest(fullMessages), AllIDs(toolCalls))
    /\ (Returned /\ toolCalls # <<>> /\ AllDescribed(toolCalls) /\ response # <<>>) =>
          result = [text |-> response, err |-> ""]

DescribedIDsOf(calls) == DescribedIDs(calls, Len(calls))

\* every assistant message with tool calls of the list is followed at once by
\* the tool messages of its calls and by no other: of all its calls, or only of
\* those with a function descriptor
Paired(messages, describedOnly) ==
    \A i \in 1..Len(messages) :
        messages[i].ToolCalls # <<>> =>
            AnsweredBy(messages, i,
                       IF describedOnly THEN DescribedIDsOf(messages[i].ToolCalls)
                       ELSE AllIDs(messages[i].ToolCalls))

\* the working list is about to be passed to CompleteWithOptions
ListPassed == LoopEntered

\* C8 as stated: in every list passed to the provider each assistant message
\* with tool calls is followed at once by exactly one tool message per tool call
\* of that message, in the same order.
C8_OneToolMessagePerCall == ListPassed => Paired(fullMessages, FALSE)

\* C8 as amended: in every list passed to the provider each assistant message
\* with tool calls is followed at once by exactly one tool message per tool call
\* of that message that has a function descriptor, in the same order; a call
\* without a descriptor has none.
C8_OneToolMessagePerDescribedCall == ListPassed => Paired(fullMessages, TRUE)

\* C8 witness: a list is passed that holds a request of two calls, one of them
\* without a function descriptor
C8_Witness ==
    /\ ListPassed
    /\ \E i \in 1..Len(fullMessages) :
          /\ Len(fullMessages[i].ToolCalls) = 2
          /\ Len(DescribedIDsOf(fullMessages[i].ToolCalls)) = 1

----------------------------------------------------------------------------
(* C9 *)

\* the call's argument string is not valid JSON
BadArguments(call) == call.Function /\ call.Arguments # "" /\ ~JSONUnmarshalOK(call.Arguments)

----------------------------------------------------------------------------
(* C10 *)

\* C10: with summarizeWhen = 5 and 5 stored messages, after one successful turn
\* and once its goroutine has finished, the stored conversation has at most 10
\* messages and a non-empty summary.
C10_SummaryAfterFiveMessages ==
    (/\ Returned
     /\ result.err = ""
     /\ cfg.summarizeWhen = 5
     /\ Len(preTurn.Messages) = 5
     /\ bg[turn].pc = "done") =>
        /\ Len(store[conversationID].Messages) <= 10
        /\ store[conversationID].Summary # <<>>

----------------------------------------------------------------------------
(* C11 *)

\* the goroutine of turn t is past the two early returns of summarizeConversation
\* and has not returned: a summarization pass (summarize, then extract) is running
InFlight(t) == bg[t].pc \in {"complete", "setSummary", "slice", "truncate", "save", "extract"}

\* C11: at every moment at most one summarization pass is in flight per
\* conversation id: the passes started by two turns on the same conversation
\* never overlap.
C11_AtMostOnePassInFlight ==
    \A t1, t2 \in Turns :
        (t1 # t2 /\ InFlight(t1) /\ InFlight(t2)) => conv[t1].ID # conv[t2].ID

----------------------------------------------------------------------------
(* C12 *)

\* the running turn has stored its two records into conv.Messages
RecordsAssigned == pc = "save" \/ (pc = "done" /\ result.err = "")

\* the messages of the turn's conversation: those loaded, and the turn's two
\* records once it has appended them
ConversationMessages == preTurn.Messages \o (IF RecordsAssigned THEN TurnRecords ELSE <<>>)

\* the last n elements of a sequence
LastOf(seq, n) == SubSeq(seq, Len(seq) - n + 1, Len(seq))

\* C12: a successful summarization pass loses no message.  Right after the pass
\* has truncated the conversation, the messages kept are the 10 most recent
\* ones and the batch sent for summarization followed by them is the whole
\* conversation; and once the turn and the pass are over, every message of the
\* conversation is in the summarized batch or in the stored record.
C12_SummarizationLosesNoMessage ==
    (turn > 0 /\ turnLimit = 1) =>
        /\ bg[turn].pc = "save" =>
              /\ conv[turn].Messages = LastOf(ConversationMessages, keepCount)
              /\ bg[turn].toSummarize \o conv[turn].Messages = ConversationMessages
        /\ (Returned /\ bg[turn].pc = "done" /\ bg[turn].summary # <<>>) =>
              Range(ConversationMessages)
                 \subseteq (Range(bg[turn].toSummarize)
                               \cup Range(store[conversationID].Messages))

----------------------------------------------------------------------------
(* C13 *)

\* the goroutine of turn t asked the provider for a summary, got none and returned
SummarizationFailed(t) ==
    bg[t].pc = "done" /\ bg[t].toSummarize # <<>> /\ bg[t].summary = <<>>

\* the step in which the goroutine of turn t returns from the given position
ReturnsFrom(t, position) == bg[t].pc = position /\ bg'[t].pc = "done"

\* the failure of the summarization call changes nothing but the goroutine
FailedSummarizationStep ==
    \A t \in Turns :
        ReturnsFrom(t, "complete") =>
            UNCHANGED <<conv, store, saved, memStore, clock, saves, turnVars, turn>>

\* the end of the extraction, failed or not, leaves the turn and the conversation alone
ExtractionEndStep ==
    \A t \in Turns :
        ReturnsFrom(t, "extract") => UNCHANGED <<conv, store, saved, saves, turnVars, turn>>

\* after a failed summarization the turn has the outcome it has without a
\* goroutine: on success the stored record is the loaded one with the turn's two
\* records and the old summary, saved once; on failure it is the loaded one,
\* never saved; and no memory was extracted
OutcomeAfterFailedSummarization ==
    (turnLimit = 1 /\ Returned /\ SummarizationFailed(turn)) =>
        /\ result.err = "" =>
              /\ store[conversationID].Messages = preTurn.Messages \o TurnRecords
              /\ store[conversationID].Summary = preTurn.Summary
              /\ saves[turn] = 1
        /\ result.err # "" => StoredAsBeforeTurn /\ saves[turn] = 0
        /\ added = <<>> => memStore = built.loaded

\* C13: when the provider call of a summarization pass fails, the conversation's
\* messages and summary are left unchanged, nothing is saved, no extraction
\* runs and the outcome of the turn is unaffected; the end of an extraction,
\* failed or not, never changes the outcome of the turn.
C13_FailedPassChangesNothing ==
    /\ [][FailedSummarizationStep /\ ExtractionEndStep]_vars
    /\ []OutcomeAfterFailedSummarization

\* C13 witness: a turn succeeded and the summarization call of its goroutine failed
C13_Witness ==
    /\ turnLimit = 1
    /\ Returned
    /\ result.err = ""
    /\ SummarizationFailed(turn)

----------------------------------------------------------------------------
(* C14 *)

\* the goroutine the running turn started has not returned
GoroutinePending == turn > 0 /\ bg[turn].pc \notin {"none", "done"}

\* C14: the turn never waits for the goroutine it started: while it runs it can
\* always take its next step, and with a goroutine still pending it reaches its
\* result, whether the goroutine ever takes a step or not (the specification
\* assumes no progress of the goroutine).
C14_ForegroundNeverWaits ==
    /\ [](Running => ENABLED TurnStep)
    /\ ((Running /\ GoroutinePending) ~> Returned)

\* C14 witness: the turn has returned its text and its goroutine has not taken
\* its first step
C14_Witness ==
    /\ Returned
    /\ result.err = ""
    /\ bg[turn].pc = "start"

----------------------------------------------------------------------------
(* C15 *)

\* BuildContext ran in the current turn (the conversation was found)
ContextBuilt == turn > 0 /\ preTurn # NotFound

\* "budget := m.maxTokens - newMsgTokens - 500" for the turn's input
Budget == cfg.maxTokens - CountTokens(<<Message("user", userInput)>>) - responseReserve

\* C15: the last element of BuildContext's output is a user message whose
\* content is the new user input, for every conversation, memory directory and
\* input, also when the token budget is zero or negative.
C15_LastIsNewUserMessage ==
    ContextBuilt =>
        /\ built.context # <<>>
        /\ built.context[Len(built.context)] = Message("user", userInput)

\* C15 witness: BuildContext ran on a conversation with messages under a budget
\* that is not positive
C15_Witness ==
    /\ ContextBuilt
    /\ Budget <= 0
    /\ preTurn.Messages # <<>>
    /\ built.context[Len(built.context)].Role = "user"

----------------------------------------------------------------------------
(* C16 *)

\* the text begins with the given words
StartsWith(text, words) == Len(text) >= Len(words) /\ SubSeq(text, 1, Len(words)) = words

\* the text ends with the given words
EndsWith(text, words) ==
    Len(text) >= Len(words) /\ SubSeq(text, Len(text) - Len(words) + 1, Len(text)) = words

\* C16: BuildContext emits its parts in a fixed order: one memory system message
\* iff the recall is non-empty, then one summary system message iff the
\* conversation's summary is non-empty, then messages of the history, then the new
\* user message; it emits no other system message.
C16_FixedAssemblyOrder ==
    ContextBuilt =>
        LET c == built.context
            nMemory == IF built.memories # <<>> THEN 1 ELSE 0
            nSummary == IF preTurn.Summary # <<>> THEN 1 ELSE 0
            first == nMemory + nSummary + 1
        IN /\ Len(c) >= first
           /\ nMemory = 1 =>
                 /\ c[1].Role = "system"
                 /\ StartsWith(c[1].Content, <<"Relevant", "context", "from", "memory:">>)
           /\ nSummary = 1 =>
                 /\ c[nMemory + 1].Role = "system"
                 /\ StartsWith(c[nMemory + 1].Content, <<"Previous", "conversation", "summary:">>)
                 /\ EndsWith(c[nMemory + 1].Content, preTurn.Summary)
           /\ \A i \in first..(Len(c) - 1) :
                 c[i] \in Range(preTurn.Messages) /\ c[i].Role # "system"
           /\ c[Len(c)] = Message("user", userInput)

\* C16 witness: a context with all four parts
C16_Witness ==
    /\ ContextBuilt
    /\ built.memories # <<>>
    /\ preTurn.Summary # <<>>
    /\ Len(built.context) >= 4
    /\ built.context[3] \in Range(preTurn.Messages)

----------------------------------------------------------------------------
(* C17 *)

\* C17: the recall never returns more than 5 items and never returns an item
\* whose stored relevance is below 0.3.
C17_RecallCapAndFloor ==
    ContextBuilt =>
        /\ Len(built.memories) <= 5
        /\ \A i \in 1..Len(built.memories) : built.memories[i].Relevance >= 3

\* C17 witness: the recall returned 5 items from a directory that holds more
\* matching items, one of them with a stored relevance below 0.3 and three
\* matching words
C17_Witness ==
    /\ ContextBuilt
    /\ Len(built.memories) = 5
    /\ \E m \in built.loaded : m.Relevance < 3 /\ MatchCount(userInput, m.Content) = 3

----------------------------------------------------------------------------
(* C18 *)

\* the number of characters (runes) of a word: that of its bytes, but for the
\* word with the accented letter
RuneCount(w) == IF w = "the_acute" THEN 3 ELSE WordLen(w)

\* the length of a query word, in characters or in bytes
LengthOf(w, inCharacters) == IF inCharacters THEN RuneCount(w) ELSE WordLen(w)

\* the query words longer than 3 that occur in the content, ignoring case
MatchingWords(query, content, inCharacters) ==
    {i \in 1..Len(query) :
        LengthOf(ToLower(query[i]), inCharacters) > 3 /\ Contains(content, ToLower(query[i]))}

\* the stored items that are candidates: stored relevance at least 0.3, and
\* 0.2 x matchCount x storedRelevance strictly above 0.1
ClaimedCandidates(inCharacters) ==
    {m \in built.loaded :
        /\ m.Relevance >= 3
        /\ 2 * Cardinality(MatchingWords(userInput, m.Content, inCharacters)) * m.Relevance > 10}

\* the recall holds candidates only, each once, in an order of non-increasing
\* stored relevance: all of them when they are at most 5, and otherwise 5 of them
\* such that no candidate left out has a higher stored relevance than one returned
RecallIs(candidates) ==
    LET r == built.memories IN
    /\ \A i \in 1..Len(r) : r[i] \in candidates
    /\ \A i, j \in 1..Len(r) : i # j => r[i] # r[j]
    /\ \A i \in 1..(Len(r) - 1) : r[i].Relevance >= r[i + 1].Relevance
    /\ Len(r) = (IF Cardinality(candidates) > 5 THEN 5 ELSE Cardinality(candidates))
    /\ \A m \in candidates \ Range(r) : \A i \in 1..Len(r) : r[i].Relevance >= m.Relevance

\* C18 as stated: the candidates are the items with stored relevance of at least
\* 0.3 and 0.2 x matchCount x storedRelevance > 0.1, where matchCount counts the
\* query words longer than 3 characters that occur in the content ignoring case;
\* the result is ordered by non-increasing stored relevance and holds all
\* candidates, or 5 of the highest stored relevance.
C18_RecallByCharacters == ContextBuilt => RecallIs(ClaimedCandidates(TRUE))

\* C18 as amended: the same, with matchCount counting the query words longer
\* than 3 bytes.
C18_RecallByBytes == ContextBuilt => RecallIs(ClaimedCandidates(FALSE))

\* C18 witness: 5 of 6 candidates were recalled, and an item whose score is
\* exactly 0.1 was not
C18_Witness ==
    /\ ContextBuilt
    /\ Cardinality(ClaimedCandidates(FALSE)) = 6
    /\ Len(built.memories) = 5
    /\ \E m \in built.loaded \ Range(built.memories) :
          2 * Cardinality(MatchingWords(userInput, m.Content, FALSE)) * m.Relevance = 10

----------------------------------------------------------------------------
(* C19 *)

\* the sliding window of the context: what lies between the system messages
\* BuildContext emitted and the new user message
Window ==
    LET nMemory == IF built.memories # <<>> THEN 1 ELSE 0
        nSummary == IF preTurn.Summary # <<>> THEN 1 ELSE 0
    IN SubSeq(built.context, nMemory + nSummary + 1, Len(built.context) - 1)

\* C19: the sliding window never holds more history messages than maxMessages,
\* for every maxMessages from 0 on, and the estimated tokens of the history
\* messages it holds never sum to more than
\* budget = maxTokens - tokens(new user message) - 500.
C19_WindowWithinLimits ==
    (ContextBuilt /\ cfg.maxMessages >= 0) =>
        /\ Len(Window) <= cfg.maxMessages
        /\ Window # <<>> => CountTokens(Window) <= Budget

----------------------------------------------------------------------------
(* C20 *)

\* the step is an AddMemory call with the given arguments
AddMemoryStep(content, type) ==
    /\ Len(added') = Len(added) + 1
    /\ added'[Len(added')].content = content
    /\ added'[Len(added')].type = type

\* C20: on an empty memory store, AddMemory("X", "fact") followed by a scan of
\* the whole memory directory returns exactly one item, with content "X", type
\* "fact" and relevance 1.0.
C20_AddThenList ==
    [][(LoadMemories(memStore) = {} /\ AddMemoryStep(<<"X">>, "fact")) =>
          \E m \in LoadMemories(memStore') :
              /\ LoadMemories(memStore') = {m}
              /\ m.Content = <<"X">>
              /\ m.Type = "fact"
              /\ m.Relevance = 10]_vars

\* C20 witness: the one AddMemory call made so far was AddMemory("X", "fact"),
\* and the directory holds one item
C20_Witness ==
    /\ Len(added) = 1
    /\ added[1].content = <<"X">>
    /\ added[1].type = "fact"
    /\ Cardinality(LoadMemories(memStore)) = 1

----------------------------------------------------------------------------
(* C21 *)

\* the items of the memory directory made by AddMemory or by extractMemories:
\* those whose id generateID drew from the clock (the files the model starts
\* from have ids below the clock's first value)
Created == {m \in memStore : m.ID >= 1}

\* C21: every item of the memory store that AddMemory or the extraction created
\* has a type among fact, preference and context: a type outside that set given
\* at creation is stored as "fact".
C21_CreatedTypesAreValid == \A m \in Created : m.Type \in MemoryTypes

----------------------------------------------------------------------------
(* C22 *)

\* the step in which the extraction of turn t has parsed and stored its response
ExtractionStep(t) == ReturnsFrom(t, "extract") /\ bg'[t].lines # <<>>

\* C22: when the extraction response holds n non-empty lines that contain a
\* colon, the extraction adds n new items to the memory store, each with
\* relevance 0.7 and the text after the first colon of its line as content, each
\* under an id of its own: no item stored before is overwritten or lost.
C22_ExtractionAddsOneItemPerLine ==
    [][\A t \in Turns :
          ExtractionStep(t) =>
              LET stored == StoredLines(bg'[t].lines)
                  new == memStore' \ memStore
              IN /\ memStore \subseteq memStore'
                 /\ Cardinality(new) = Len(stored)
                 /\ \A m \in new :
                       m.Relevance = 7 /\ \E i \in 1..Len(stored) : m.Content = stored[i].after
                 /\ \A i \in 1..Len(stored) : \E m \in new : m.Content = stored[i].after]_vars

----------------------------------------------------------------------------
(* C23 *)

\* the turn returned the error of a failed provider call
ProviderFailed == Returned /\ result.err = "LLM completion"

\* the failed call was the last thing the turn did: the call is not repeated, no
\* provider call and no tool execution follows it
NothingAfterFailedCall ==
    (ProviderFailed /\ turn' = turn) =>
        UNCHANGED <<completeCount, handled, fullMessages, iteration, result>>

\* the error is returned with empty text, and the failed call is counted once
FailedCallReturnsError ==
    ProviderFailed => result.text = <<>> /\ completeCount = iteration

\* nothing was saved for the turn, by the time everything it started is over
FailedTurnNotSaved ==
    (ProviderFailed /\ GoroutineFinished) => saves[turn] = 0 /\ StoredAsBeforeTurn

\* C23: when a provider call fails in any iteration of the loop, ChatStream
\* returns that error at once: the failed call is not retried, no further
\* provider call is made, no further tool is executed and the conversation is not
\* saved.
C23_ProviderErrorAborts ==
    /\ [](FailedCallReturnsError /\ FailedTurnNotSaved)
    /\ [][NothingAfterFailedCall]_vars

----------------------------------------------------------------------------
(* C24 *)

\* the error values ChatStream returns besides the denial and the limit: the
\* wrapped errors of the store and of the provider
GenericErrors == {"loading conversation", "saving conversation", "LLM completion"}

\* Interactive's test "err == ErrToolDenied"
IsToolDenied(err) == err = "ErrToolDenied"

\* the step is a return of ChatStream
ReturnStep == pc' = "done" /\ (pc # "done" \/ turn' # turn)

\* the return while a call waits for its confirmation
DenialStep == ReturnStep /\ pc = "tools"

\* the return of "if iteration >= maxIterations" after the loop
LimitStep == ReturnStep /\ LoopLeft /\ IterationLimitHit

\* C24: the outcomes of ChatStream can be told apart.  A denial returns exactly
\* the sentinel ErrToolDenied, not wrapped, with empty text, and no other return
\* gives it; the iteration limit returns an error that is neither the sentinel
\* nor an error of the provider or of the store nor success, and no other return
\* gives it.
C24_OutcomesDiscriminable ==
    [][ReturnStep =>
          /\ DenialStep <=> IsToolDenied(result'.err)
          /\ DenialStep => result'.text = <<>>
          /\ LimitStep <=> result'.err = "max tool iterations reached"
          /\ LimitStep => ~IsToolDenied(result'.err) /\ result'.err \notin GenericErrors \cup {""}
          /\ (~DenialStep /\ ~LimitStep) => result'.err \in GenericErrors \cup {""}]_vars

\* C24 witness: a denial in the tenth round, where the limit is next
C24_Witness ==
    /\ Returned
    /\ IsToolDenied(result.err)
    /\ iteration = maxIterations

----------------------------------------------------------------------------
(* C25 *)

\* a ChatStream call with a stream sink has returned
ReturnedWithSink == Returned /\ onChunk = "set"

\* a turn that failed never invoked the sink, and no sink is invoked before the
\* loop is left
FailedTurnLeavesSink ==
    /\ (ReturnedWithSink /\ result.err # "") => sink = <<>>
    /\ pc \in {"loop", "tools"} => sink = <<>>

----------------------------------------------------------------------------
(* C26 *)

\* the calls passed to Registry.Execute in the turn so far, as ParseToolCall
\* returned them
ExecutedCalls ==
    {ParsedCall(CallOfID(handled[i].ID)) : i \in {j \in 1..Len(handled) : handled[j].step = "executed"}}

\* the executor of the call's tool returns an error
ExecutorFails(call) == call.Name \in RegisteredTools /\ ~HasText(call.RawArgs)

\* what the echo tool's executor returns for the call's text
EchoOutput(call) == IF HasText(call.RawArgs) THEN <<"test">> ELSE <<>>

----------------------------------------------------------------------------
(* C27 *)

\* the goroutine is inside a method of the store, past its lock call
InMethod(g) == inStore[g].pc = "held"

\* a goroutine inside a save or a delete holds the write lock and is the only
\* goroutine inside a method
WritesExclusive ==
    \A g \in Goroutines :
        (InMethod(g) /\ inStore[g].op \in WriteOps) =>
            /\ mu.writer = g
            /\ \A h \in Goroutines \ {g} : ~InMethod(h)

\* the goroutines inside a method while none holds the write lock are in loads
\* and lists, and they are the holders of the read lock
ReadsShared ==
    mu.writer = "none" =>
        /\ mu.readers = {g \in Goroutines : InMethod(g)}
        /\ \A g \in mu.readers : inStore[g].op \in ReadOps

\* a conversation file or a memory file changes only in the return step of a
\* save or delete whose goroutine holds the write lock
MutationsUnderLock ==
    (store' # store \/ memStore' # memStore) =>
        \E g \in Goroutines :
            /\ InMethod(g)
            /\ inStore[g].op \in WriteOps
            /\ mu.writer = g
            /\ inStore'[g] = NoCall

\* C27: on one store no save or delete overlaps in time with any other store
\* method, loads and lists hold the lock in shared mode only, and every change of
\* a conversation or memory file made by a foreground caller or by the
\* summarizer is made by the holder of the exclusive lock.
C27_WritesAreExclusive ==
    /\ [](WritesExclusive /\ ReadsShared)
    /\ [][MutationsUnderLock]_vars

\* the summarizer is saving the conversation while one foreground caller waits
\* to load it and the other waits to save a memory item
C27_Witness ==
    /\ InMethod("summarizer")
    /\ inStore["summarizer"].op = "SaveConversation"
    /\ mu.writer = "summarizer"
    /\ inStore["turn1"].op = "LoadConversation" /\ inStore["turn1"].pc = "wait"
    /\ inStore["turn2"].op = "SaveMemory" /\ inStore["turn2"].pc = "wait"

\* two loads and a list overlap
C27_LoadsOverlap ==
    /\ InMethod("turn1") /\ inStore["turn1"].op = "LoadConversation"
    /\ InMethod("turn2") /\ inStore["turn2"].op \in {"LoadMemories", "ListConversations"}
    /\ mu.readers = {"turn1", "turn2"}

----------------------------------------------------------------------------
(* C28 *)

\* the step in which a LoadConversation call of the goroutine returns
LoadReturns(g) == Holds(g, "LoadConversation") /\ inStore'[g] = NoCall

\* the same id, messages and summary
SameRecord(a, b) == a.ID = b.ID /\ a.Messages = b.Messages /\ a.Summary = b.Summary

\* C28: for every conversation id, a LoadConversation of the id returns the id,
\* messages and summary of its last SaveConversation, and returns ErrNotFound
\* when the id was never saved or was deleted after its last save.
C28_LoadReturnsLastSave ==
    [][\A g \in Goroutines :
          LoadReturns(g) =>
              IF saved[inStore[g].id] = NotFound
              THEN ret'.err = "ErrNotFound"
              ELSE ret'.err = "" /\ SameRecord(ret'.conv, saved[inStore[g].id])]_vars

\* a conversation saved under a plain name has been loaded back
PlainRoundTrip ==
    /\ ret.op = "LoadConversation"
    /\ ret.id = "other"
    /\ ret.err = ""
    /\ ret.conv.Messages = TurnMessages

----------------------------------------------------------------------------
(* C29 *)

\* the indices in handled of the executed calls whose result carries an error
FailedExecutions ==
    {i \in 1..Len(handled) :
        /\ handled[i].step = "executed"
        /\ Execute(ParsedCall(CallOfID(handled[i].ID))).Error # <<>>}

\* the turn went on after the i-th handled call: the next call of the same
\* response is handled or about to be, or, after the last call of a response,
\* the loop is back at its head, or the provider has been called again, or the
\* response was the one that exhausts the iteration limit
WentOnAfter(i) ==
    IF IndexOf(handled[i].ID) < Len(stub)
    THEN \/ i < Len(handled) /\ handled[i + 1].ID = handled[i].ID + 1
         \/ i = Len(handled) /\ pc = "tools" /\ toolCalls[tc].ID = handled[i].ID + 1
    ELSE \/ pc = "loop"
         \/ completeCount > RoundOf(handled[i].ID)
         \/ /\ RoundOf(handled[i].ID) = maxIterations
            /\ result.err = "max tool iterations reached"

\* C29: a tool execution that returns an error does not end the turn: the call
\* gets one tool message whose content is "Error: " and the error text, the
\* call after it in the same response is handled next, and after the last call
\* of the response ChatStream goes on to the next provider call.
C29_ExecutionErrorIsFedBack ==
    \A i \in FailedExecutions :
        LET call == CallOfID(handled[i].ID) IN
        /\ \E m \in ToolMessagesOf(fullMessages, call.ID) :
              /\ ToolMessagesOf(fullMessages, call.ID) = {m}
              /\ fullMessages[m].Name = call.Name
              /\ fullMessages[m].Content = <<"Error:">> \o Execute(ParsedCall(call)).Error
        /\ result.err # "tool execution"
        /\ WentOnAfter(i)

\* C29 witness: an execution failed, the call after it in the same response was
\* executed too, the provider was called again and the turn returned its text
C29_Witness ==
    /\ \E i \in FailedExecutions :
          /\ i < Len(handled)
          /\ handled[i + 1].step = "executed"
          /\ RoundOf(handled[i + 1].ID) = RoundOf(handled[i].ID)
          /\ completeCount > RoundOf(handled[i].ID)
    /\ Returned
    /\ result.err = ""
    /\ result.text # <<>>

----------------------------------------------------------------------------
(* C30 *)

\* the indices in handled of the calls that have no function descriptor
WithoutFunction == {i \in 1..Len(handled) : ~CallOfID(handled[i].ID).Function}

\* the step of ChatStream's loop over resp.ToolCalls that passes over a call
\* without function descriptor
SkipStep == AtToolCall /\ ~toolCalls[tc].Function /\ tc' = tc + 1

\* that step changes nothing but the position in the list of calls
SkipChangesNothing ==
    SkipStep =>
        /\ fullMessages' = fullMessages
        /\ result' = result
        /\ completeCount' = completeCount
        /\ store' = store /\ memStore' = memStore
        /\ sink' = sink
        /\ ExecutedIDs(handled') = ExecutedIDs(handled)
        /\ pc' = IF tc < Len(toolCalls) THEN "tools" ELSE "loop"

\* a call is passed over only when it has no function descriptor, and such a
\* call is not parsed, not put to the hook, not executed and not answered; the
\* turn goes on with the next call or the next provider call
SkippedIffNoFunction ==
    \A i \in 1..Len(handled) :
        /\ handled[i].step = "skipped" <=> i \in WithoutFunction
        /\ i \in WithoutFunction =>
              /\ handled[i].confirm = "nil"
              /\ ToolMessagesOf(fullMessages, handled[i].ID) = {}
              /\ handled[i].ID \notin Range(ExecutedIDs(handled))
              /\ WentOnAfter(i)
        /\ (i \notin WithoutFunction /\ handled[i].step # "denied") =>
              Cardinality(ToolMessagesOf(fullMessages, handled[i].ID)) = 1

\* C30: a requested call without function descriptor is skipped silently: it is
\* not parsed, not submitted to the confirmation hook, not executed and gets no
\* tool message; the step over it changes nothing else, and the other calls of
\* the response are handled as usual, each with its one tool message.
C30_NilFunctionSkippedSilently ==
    /\ []SkippedIffNoFunction
    /\ [][SkipChangesNothing]_vars

\* C30 witness: as in TestChat_ToolCallWithNilFunction, a response carried a
\* call without function descriptor and then an echo call; the first was
\* skipped, the second executed, and the turn returned its text without error
C30_Witness ==
    /\ \E i \in WithoutFunction :
          /\ i < Len(handled)
          /\ handled[i + 1].step = "executed"
          /\ RoundOf(handled[i + 1].ID) = RoundOf(handled[i].ID)
          /\ Cardinality(ToolMessagesOf(fullMessages, handled[i + 1].ID)) = 1
    /\ Returned
    /\ result.err = ""
    /\ result.text # <<>>
    /\ saves[turn] >= 1

----------------------------------------------------------------------------
(* C31 *)

\* the last n messages of the list
Suffix(messages, n) == SubSeq(messages, Len(messages) - n + 1, Len(messages))

\* the walk of getRecentMessages stopped before the oldest message
WalkStoppedEarly == Len(Window) < Len(preTurn.Messages)

\* the message the walk stopped at: the newest one that is not in the window
StoppedAt == preTurn.Messages[Len(preTurn.Messages) - Len(Window)]

\* C31: the history part of the sliding window is a contiguous suffix of the
\* conversation's messages, in their order; when the walk from newest to oldest
\* stopped before the oldest message, it stopped because the window was full or
\* at the first message that would break the token budget, so no message older
\* than a left-out one is in the window.
C31_WindowIsSuffix ==
    ContextBuilt =>
        /\ Len(Window) <= Len(preTurn.Messages)
        /\ Window = Suffix(preTurn.Messages, Len(Window))
        /\ WalkStoppedEarly =>
              \/ Len(Window) >= cfg.maxMessages
              \/ CountTokens(Window) + CountTokens(<<StoppedAt>>) > Budget

\* C31 witness: the walk included the newest message and stopped at a long
\* message that breaks the budget, although the message before that one would
\* have fitted
C31_Witness ==
    /\ ContextBuilt
    /\ preTurn = UnevenConversation
    /\ Len(Window) = 1
    /\ Len(Window) < cfg.maxMessages
    /\ CountTokens(Window) + CountTokens(<<StoppedAt>>) > Budget
    /\ CountTokens(Window) + CountTokens(<<preTurn.Messages[1]>>) <= Budget

----------------------------------------------------------------------------
(* C32 *)

\* the turn's scope ended before the present time: it was cancelled earlier, or
\* its deadline lies in the past
ScopeOver ==
    \/ ctx.cancelled /\ elapsed > ctx.cancelledAt
    \/ ctx.deadline >= 0 /\ elapsed > ctx.deadline

\* the running shell call was started while the turn's scope was live
StartedInScope ==
    /\ ctx.cancelled => ctx.cancelledAt >= shell.started
    /\ ctx.deadline >= 0 => shell.started < ctx.deadline

\* C32: the turn and its tool executions share one cancellable scope: a tool is
\* not left executing once the turn's scope was cancelled or its deadline has
\* passed, and the tool's own timeout cannot keep it running beyond that scope.
C32_ToolStopsWithScope == (shell.pc = "running" /\ StartedInScope) => ~ScopeOver

\* a shell call with the largest timeout was started in a scope with a deadline,
\* and has returned its output after that deadline
RanPastDeadline ==
    /\ shell.pc = "returned"
    /\ shell.err = ""
    /\ shell.timeout = 120
    /\ ctx.deadline = 30
    /\ shell.started = 0
    /\ elapsed = 90

----------------------------------------------------------------------------
(* C33 *)

\* the id SetConversation uses for the id it is given
EffectiveID(id) == IF id = "" THEN "default" ELSE id

\* the step is a call of SetConversation that switches to the id or creates its
\* conversation (a call that does neither changes nothing)
SetConversationStep(cid) ==
    /\ conversationID' = cid
    /\ \/ conversationID # cid
       \/ LoadConversation(cid) = NotFound /\ store'[PathOf(cid)] # store[PathOf(cid)]

\* C33: SetConversation(id) ensures that a conversation with that id exists, ""
\* standing for "default": when none is stored it saves an empty conversation
\* with that id, and when one is stored it leaves all files as they are, so that
\* a second call changes nothing.
C33_SetConversationEnsuresExistence ==
    [][\A id \in SwitchIDs :
          LET cid == EffectiveID(id) IN
          SetConversationStep(cid) =>
              /\ LoadConversation(cid)' # NotFound
              /\ LoadConversation(cid)'.ID = cid
              /\ IF LoadConversation(cid) = NotFound
                 THEN /\ LoadConversation(cid)'.Messages = <<>>
                      /\ LoadConversation(cid)'.Summary = <<>>
                      /\ \A f \in Files \ {PathOf(cid)} : store'[f] = store[f]
                 ELSE store' = store]_vars

\* SetConversation("") has created the default conversation, a conversation was
\* switched to and back, and the files are as the first call left them
SwitchedBack ==
    /\ conversationID = "default"
    /\ store["default"] = Conversation("default", <<>>, <<>>)
    /\ store["other"] = Conversation("other", <<>>, <<>>)
    /\ saved["default"] = store["default"]

----------------------------------------------------------------------------
(* C34 *)

\* ChatStream is about to make the first provider call of the turn
AtFirstCall == pc = "loop" /\ completeCount = 0

\* the messages of the list that are the new user message
NewUserMessages(messages) ==
    {i \in 1..Len(messages) : messages[i] = Message("user", userInput)}

\* C34: the message list of the first provider call of a turn is the one system
\* message followed by the built context, whose last element is the single
\* user message holding the input: the new user message is in the list once.
C34_UserMessageOnce ==
    AtFirstCall =>
        /\ fullMessages = <<Message("system", buildSystemPrompt)>> \o built.context
        /\ fullMessages[Len(fullMessages)] = Message("user", userInput)
        /\ Cardinality(NewUserMessages(fullMessages))
             = Cardinality(NewUserMessages(Window)) + 1

----------------------------------------------------------------------------
(* C35 *)

\* the hook was invoked for the i-th handled call
HookInvoked(i) == handled[i].confirm \in {"true", "false"}

\* C35: with a confirmation hook configured, every call executed in the turn is
\* one for which the hook was invoked and returned true, and the hook is invoked
\* only for calls that have a function descriptor and whose arguments parsed:
\* no call is executed without confirmation, and a call the hook refused is
\* not executed. Without a hook, no invocation is recorded.
C35_NoExecutionWithoutConfirmation ==
    \A i \in 1..Len(handled) :
        LET call == CallOfID(handled[i].ID) IN
        /\ onToolConfirm = "nil" => ~HookInvoked(i)
        /\ onToolConfirm = "set" =>
              /\ handled[i].step = "executed" => handled[i].confirm = "true"
              /\ handled[i].confirm = "false" => handled[i].step = "denied"
              /\ HookInvoked(i) => call.Function /\ ParseToolCallOK(call.Arguments)
              /\ (call.Function /\ ParseToolCallOK(call.Arguments)) => HookInvoked(i)

\* C35 witness: with a hook configured, a response carried a call with
\* malformed arguments and an echo call: the first was answered without the
\* hook, the second was confirmed and executed, and the turn returned its text
C35_Witness ==
    /\ onToolConfirm = "set"
    /\ \E i \in 1..Len(handled) :
          /\ handled[i].step = "parseError"
          /\ ~HookInvoked(i)
          /\ i < Len(handled)
          /\ handled[i + 1].step = "executed"
          /\ handled[i + 1].confirm = "true"
    /\ Returned
    /\ result.err = ""

----------------------------------------------------------------------------
(* C36 *)

\* only user and assistant messages without tool calls, in strict alternation
\* beginning with a user message
Alternating(messages) ==
    \A i \in 1..Len(messages) :
        /\ messages[i].Role = (IF i % 2 = 1 THEN "user" ELSE "assistant")
        /\ messages[i].ToolCalls = <<>>
        /\ messages[i].ToolCallID = 0

\* the conversation file is as SetConversation and complete turns leave it:
\* missing, empty, or a list of user and assistant pairs
AsTurnsLeaveIt(c) == Alternating(c.Messages) /\ Len(c.Messages) % 2 = 0

\* C36: when the conversation file is as SetConversation and turns leave it at
\* the start of a turn, then whatever the turn, the summarization passes and the
\* passes still in flight from earlier turns save, the persisted conversation
\* holds only user and assistant messages without tool calls, in strict
\* alternation beginning with a user message.
C36_PersistedAlternates ==
    IF turn = 0
    THEN AsTurnsLeaveIt(store["default"]) => Alternating(store["default"].Messages)
    ELSE AsTurnsLeaveIt(preTurn) => Alternating(store["default"].Messages)

\* C36 witness: a turn with tool calls has saved its pair on top of stored
\* pairs, and its summarization pass has cut the saved list down to ten
C36_Witness ==
    /\ AsTurnsLeaveIt(preTurn)
    /\ preTurn.Messages # <<>>
    /\ Returned
    /\ result.err = ""
    /\ saves[turn] = 2
    /\ GoroutineFinished
    /\ Len(store["default"].Messages) = keepCount
    /\ store["default"].Summary # preTurn.Summary
    /\ Alternating(store["default"].Messages)

----------------------------------------------------------------------------
(* C37 *)

\* the goroutine of turn t has saved the conversation it summarized
PassSaved(t) == bg[t].pc \in {"extract", "done"} /\ bg[t].summary # <<>>

\* turn t ended as DONE: of the saves it caused, one is ChatStream's own
EndedDone(t) == saves[t] = (IF PassSaved(t) THEN 2 ELSE 1)

\* the number of messages of a list with this role and content
Count(messages, role, content) ==
    Cardinality({i \in 1..Len(messages) :
                    messages[i].Role = role /\ messages[i].Content = content})

\* C37: once two turns on the same conversation id have both ended as DONE, the
\* persisted conversation holds the user record and the assistant record of
\* each of them (here both turns have the same input and the same answer, which
\* no message of the file had before, so it holds each record twice).
C37_BothTurnsPersisted ==
    (turn = 2 /\ Returned /\ result.err = "" /\ EndedDone(1)) =>
        /\ Count(store[conversationID].Messages, "user", userInput) >= 2
        /\ Count(store[conversationID].Messages, "assistant", result.text) >= 2

\* both turns ended as DONE, the second one after the first one's pass had
\* returned, and the file holds the records of both
BothTurnsKept ==
    /\ turn = 2 /\ Returned /\ result.err = "" /\ EndedDone(1)
    /\ bg[1].pc = "done" /\ bg[2].pc = "done"
    /\ Count(store[conversationID].Messages, "user", userInput) = 2
    /\ Count(store[conversationID].Messages, "assistant", result.text) = 2

----------------------------------------------------------------------------
(* C38 *)

\* the goroutine of turn t has called provider.Complete with its summarize prompt
AskedToSummarize(t) ==
    bg[t].pc \in {"complete", "setSummary", "slice", "truncate", "save", "extract"}
    \/ bg[t].toSummarize # <<>>

\* the goroutine of the running turn was started for a conversation of at most
\* keepCount messages
LaunchedOnShort ==
    turn > 0 /\ bg[turn].pc # "none" /\ Len(preTurn.Messages) <= keepCount

\* the goroutine of the running turn has asked nothing, changed nothing and
\* saved nothing
UnitDidNothing ==
    /\ ~AskedToSummarize(turn)
    /\ bg[turn].summary = <<>> /\ bg[turn].kept = <<>>
    /\ conv[turn].Summary = preTurn.Summary
    /\ ~PassSaved(turn)

\* C38: a summarization unit launched for a conversation that holds 10 or fewer
\* messages makes no provider call, changes neither messages nor summary and
\* saves nothing; and a unit that has asked the provider found more than 10
\* messages and at least summarizeWhen of them (its batch is all but the last 10).
C38_ShortConversationNotSummarized ==
    /\ LaunchedOnShort => UnitDidNothing
    /\ \A t \in Turns :
          AskedToSummarize(t) =>
              /\ Len(bg[t].toSummarize) >= 1
              /\ Len(bg[t].toSummarize) + keepCount >= cfg.summarizeWhen

\* a unit launched on a short conversation has returned without doing anything
ShortUnitReturned ==
    LaunchedOnShort /\ bg[turn].pc = "done" /\ UnitDidNothing /\ Returned /\ result.err = ""

----------------------------------------------------------------------------
(* C39 *)

\* "summarizePrompt := []llm.Message{...}": the fixed instruction and the batch
summarizePrompt(toSummarize) ==
    <<Message("system", <<"Summarize", "the", "following", "conversation", "concisely,",
                          "preserving", "key", "facts,", "decisions,", "and", "context.",
                          "Be", "brief", "but", "comprehensive.">>),
      Message("user", formatMessagesForSummary(toSummarize))>>

\* the words of part occur in text, in a row
HasPart(text, part) ==
    \E i \in 0..(Len(text) - Len(part)) : SubSeq(text, i + 1, i + Len(part)) = part

\* the goroutine of turn t is in provider.Complete with its summarize prompt, on a
\* conversation that has a summary
SummarizingAgain(t) == bg[t].pc = "complete" /\ conv[t].Summary # <<>>

\* C39: when a summarization pass asks the provider on a conversation that
\* already has a summary, the text of that summary is part of the input the
\* provider is asked to summarize.
C39_PreviousSummaryIsInput ==
    \A t \in Turns :
        SummarizingAgain(t) =>
            \E i \in 1..Len(summarizePrompt(bg[t].toSummarize)) :
                HasPart(summarizePrompt(bg[t].toSummarize)[i].Content, conv[t].Summary)

\* a pass on a conversation with a summary has replaced the summary and saved
SummaryReplaced ==
    \E t \in Turns :
        /\ PassSaved(t)
        /\ preTurn.Summary # <<>> /\ t = turn
        /\ store[conversationID].Summary = bg[t].summary
        /\ store[conversationID].Summary # preTurn.Summary

----------------------------------------------------------------------------
(* C40 *)

\* s is the beginning of t
IsPrefix(s, t) == Len(s) <= Len(t) /\ SubSeq(t, 1, Len(s)) = s

\* a step of the running turn
TurnGoesOn == turn' = turn

\* a step in which CompleteWithOptions is called and the loop goes on
CallAnsweredWithToolCalls == completeCount' = completeCount + 1 /\ pc' = "tools"

\* the working list is only appended to, and a provider call after which the
\* loop goes on leaves it longer than the list the call was given
AppendOnly ==
    TurnGoesOn =>
        /\ IsPrefix(fullMessages, fullMessages')
        /\ CallAnsweredWithToolCalls => Len(fullMessages') > Len(fullMessages)

\* C40: within one turn the working list only grows by appending, so that the
\* list of each provider call has the list of the previous provider call as a
\* strict prefix (every step keeps the list as a prefix, and the step of a
\* provider call that is not the last one makes it longer), and a turn makes at
\* most 10 provider calls.
C40_WorkingListAppendOnly ==
    /\ [](completeCount <= maxIterations)
    /\ [][AppendOnly]_vars

\* C40 witness: a turn has made its tenth provider call, on a list that grew by
\* at least an assistant message per earlier call
C40_Witness ==
    /\ Returned
    /\ completeCount = maxIterations
    /\ IsPrefix(SeedMessages(built.context, userInput), fullMessages)
    /\ Len(fullMessages) >= Len(SeedMessages(built.context, userInput)) + maxIterations

============================================================================
